---------------------------- MODULE Spec2Model ----------------------------
(***************************************************************************)
(* ASIX SIGMA/SIGMA2 logic analyzer driver core                            *)
(* (src/hardware/asix-sigma/protocol.c) as a state machine.                *)
(*                                                                         *)
(* Conventions.                                                            *)
(*  - devc is struct dev_context; devc.state is devc->state.state,         *)
(*    devc.lastts / devc.lastsample are devc->state.lastts / .lastsample.  *)
(*  - Return codes are strings named after the C constants.  A negative    *)
(*    libftdi return value is "FTDI_ERR".                                  *)
(*  - Register numbers, opcodes and flag bits live in protocol.h; they are *)
(*    kept symbolic (strings and sets of flag names).                      *)
(*  - (uint32_t)~0 is written NONE (-1); it is only ever compared.         *)
(*  - a size_t/uint64_t sample count that wrapped below zero is kept as    *)
(*    the negative integer d and stands for 2^63 + d samples.              *)
(***************************************************************************)
EXTENDS Integers, Sequences, FiniteSets, TLC

(***************************************************************************)
(* Bounds of the model.                                                    *)
(***************************************************************************)
\* largest sample cap the configuration surface hands to the core
MaxLimit == 3
\* largest number of INIT_B reads that see the pin low before the final read
MaxLowReads == 1
\* largest number of stale bytes drained after leaving bitbang mode
MaxDrain == 1
\* the monotonic clock is observed up to this many microseconds
MaxNow == 3000
\* largest number of mode-status reads without POSTTRIGGERED in one download
MaxPolls == 1
\* captures armed in one run
MaxCaptures == 2
\* most matches in one session trigger
MaxMatches == 3

(***************************************************************************)
(* Program constants.                                                      *)
(***************************************************************************)
SR_KHZ_200 == 200000
SR_KHZ_250 == 250000
SR_KHZ_500 == 500000
SR_MHZ_1 == 1000000
SR_MHZ_5 == 5000000
SR_MHZ_10 == 10000000
SR_MHZ_25 == 25000000
SR_MHZ_50 == 50000000
SR_MHZ_100 == 100000000
SR_MHZ_200 == 200000000

samplerates ==
  << SR_KHZ_200, SR_KHZ_250, SR_KHZ_500, SR_MHZ_1, SR_MHZ_5,
     SR_MHZ_10, SR_MHZ_25, SR_MHZ_50, SR_MHZ_100, SR_MHZ_200 >>

samplerates_count == Len(samplerates)

\* bitbang pins
BB_PIN_CCLK == 1
BB_PIN_PROG == 2
BB_PIN_D2 == 4
BB_PIN_D3 == 8
BB_PIN_INIT == 32
BB_PIN_DIN == 64
BB_PIN_D7 == 128
BB_BITRATE == 750000
BB_PINMASK == 255 - BB_PIN_INIT

\* retries = 10 in sigma_fpga_init_bitbang
INIT_RETRIES == 10

\* DRAM layout (protocol.h)
EVENTS_PER_CLUSTER == 7
CLUSTERS_PER_ROW == 64
EVENTS_PER_ROW == 448
ROW_SHIFT == 9
ROW_COUNT == 32768
\* chunks_per_read in download_capture
chunks_per_read == 32

NONE == 0 - 1

(***************************************************************************)
(* Small helpers.                                                          *)
(***************************************************************************)
MIN(a, b) == IF a < b THEN a ELSE b

Pow2(k) == 2 ^ k

\* bit k of x
BitAt(x, k) == (x \div Pow2(k)) % 2

\* x & y on 16-bit values
RECURSIVE AndBits(_, _, _)
AndBits(x, y, k) ==
  IF k = 16 THEN 0
  ELSE (IF BitAt(x, k) = 1 /\ BitAt(y, k) = 1 THEN Pow2(k) ELSE 0)
       + AndBits(x, y, k + 1)

And16(x, y) == AndBits(x, y, 0)

\* x | y on 16-bit values
Or16(x, y) == x + y - And16(x, y)

\* x & ~y on 16-bit values
AndNot16(x, y) == x - And16(x, y)

RECURSIVE PopCount(_, _)
PopCount(x, k) ==
  IF k = 16 THEN 0 ELSE BitAt(x, k) + PopCount(x, k + 1)

\* one operation on the byte link (ftdi_*), as the cable sees it
LinkOp(op, n, tag, data) == [op |-> op, n |-> n, tag |-> tag, data |-> data]

\* b, with a evaluated first (keeps the evaluation of long loops shallow)
After(a, b) == IF a = a THEN b ELSE b

RECURSIVE Repeat(_, _)
Repeat(x, n) == IF n = 0 THEN << >> ELSE << x >> \o Repeat(x, n - 1)


(***************************************************************************)
(* State.                                                                  *)
(***************************************************************************)
VARIABLES
  devc,     \* struct dev_context
  fpga,     \* the device: "unknown", "halted", or the slot ("0", "1", "2") whose
            \* netlist was sent last
  now,      \* g_get_monotonic_time(), microseconds
  pc,       \* position of the poll callback: "idle", or inside download_capture
  dl,       \* locals of download_capture
  feed,     \* datafeed of the current capture (adjacent logic packets merged)
  offered,  \* samples handed to sigma_session_send in the current capture
  ops,      \* byte-link operations issued by the last step
  last,     \* the last operation: its name, argument and return value
  ncap,     \* captures armed so far
  inp       \* inputs of the pure-function specifications

vars == << devc, fpga, now, pc, dl, feed, offered, ops, last, ncap, inp >>

Call(op, arg, ret, note) == [op |-> op, arg |-> arg, ret |-> ret, note |-> note]

(***************************************************************************)
(* FPGA loader.                                                            *)
(***************************************************************************)
suicide ==
  << BB_PIN_D7 + BB_PIN_D2, BB_PIN_D7 + BB_PIN_D2, BB_PIN_D7 + BB_PIN_D3,
     BB_PIN_D7 + BB_PIN_D2, BB_PIN_D7 + BB_PIN_D3, BB_PIN_D7 + BB_PIN_D2,
     BB_PIN_D7 + BB_PIN_D3, BB_PIN_D7 + BB_PIN_D2 >>

init_array ==
  << BB_PIN_CCLK, BB_PIN_CCLK + BB_PIN_PROG, BB_PIN_CCLK + BB_PIN_PROG,
     BB_PIN_CCLK, BB_PIN_CCLK, BB_PIN_CCLK, BB_PIN_CCLK, BB_PIN_CCLK,
     BB_PIN_CCLK, BB_PIN_CCLK >>

\* The answers the cable gives to successive one-byte reads while the driver
\* waits for INIT_B: "low" (a byte with bit 5 clear), "high" (bit 5 set),
\* "none" (ftdi_read_data returned 0: no byte, data is not written), "fail"
\* (ftdi_read_data < 0).  The last family never raises INIT_B.
InitAnswers ==
  { p \o << e >> : p \in { Repeat("low", k) : k \in 0..MIN(MaxLowReads, INIT_RETRIES - 1) }
                           \cup { << "none" >> },
                   e \in {"high", "fail"} }
  \cup { Repeat("low", INIT_RETRIES + 1) }

\* the while (retries--) loop of sigma_fpga_init_bitbang; data is bit 5 of the
\* local variable data, which holds the byte of the last read that brought
\* one and, before that, whatever the stack held (indeterminate)
RECURSIVE init_b_poll(_, _, _, _)
init_b_poll(answers, retries, reads, data) ==
  IF retries = 0 THEN [ret |-> "SR_ERR_TIMEOUT", reads |-> reads]
  ELSE IF Head(answers) = "fail" THEN [ret |-> "FTDI_ERR", reads |-> reads + 1]
  ELSE IF Head(answers) = "high" \/ (Head(answers) = "none" /\ data)
    THEN [ret |-> "SR_OK", reads |-> reads + 1]
  ELSE init_b_poll(Tail(answers), retries - 1, reads + 1,
                   IF Head(answers) = "none" THEN data ELSE FALSE)

\* the one-byte reads of the loop, each with what it brought
init_b_reads(answers, reads) ==
  [i \in 1..reads |-> LinkOp("read", 1, "init_b", << answers[i] >>)]

sigma_fpga_init_bitbang(answers, data) ==
  LET poll == init_b_poll(answers, INIT_RETRIES, 0, data)
  IN [ret |-> poll.ret,
      ops |-> Repeat(LinkOp("write", Len(suicide), "suicide", suicide), 4)
              \o << LinkOp("write", Len(init_array), "init_array", init_array),
                    LinkOp("purge", 0, "", << >>) >>
              \o init_b_reads(answers, poll.reads)]

\* la: "ok" (0xa6, 0x55, 0xaa came back), "short" (fewer than 3 bytes),
\* "mismatch" (3 bytes, not the expected ones)
sigma_fpga_init_la(la) ==
  [ret |-> IF la = "ok" THEN "SR_OK" ELSE "SR_ERR",
   ops |-> << LinkOp("write", 13, "logic_mode_start", << >>),
              LinkOp("read", 3, "logic_mode_start", << >>) >>]

\* What the cable, the firmware file and the allocator do during one upload.
\* Fields after the step that fails are irrelevant and held at a default.
UploadEnvs ==
  { e \in [bitmode : BOOLEAN, baud : BOOLEAN, init : InitAnswers, data : BOOLEAN,
           fw : {"SR_OK", "SR_ERR_IO", "SR_ERR_MALLOC"}, reset : BOOLEAN,
           drain : 0..MaxDrain, la : {"ok", "short", "mismatch"}] :
      /\ (~e.bitmode => e.baud)
      /\ (~(e.bitmode /\ e.baud) => e.init = << "high" >>)
      /\ (e.data => Head(e.init) = "none")
      /\ (~(e.bitmode /\ e.baud)
            \/ init_b_poll(e.init, INIT_RETRIES, 0, e.data).ret # "SR_OK"
            => e.fw = "SR_OK")
      /\ (e.fw # "SR_OK" => e.reset)
      /\ (~e.reset => e.drain = 0 /\ e.la = "ok")
      /\ (e.la # "ok" => e.drain = 0) }

\* upload_firmware past the "already loaded" check: the steps of one upload
upload_firmware_steps(cur_firmware, device, firmware_idx, e) ==
  LET bb == sigma_fpga_init_bitbang(e.init, e.data)
      la == sigma_fpga_init_la(e.la)
      o1 == << LinkOp("set_bitmode", BB_PINMASK, "BITMODE_BITBANG", << >>) >>
      o2 == o1 \o << LinkOp("set_baudrate", BB_BITRATE, "", << >>) >>
      o3 == o2 \o bb.ops
      o4 == o3 \o << LinkOp("write", firmware_idx, "bitstream", << >>) >>
      o5 == o4 \o << LinkOp("set_bitmode", 0, "BITMODE_RESET", << >>) >>
      o6 == o5 \o << LinkOp("purge", 0, "", << >>) >>
              \o Repeat(LinkOp("read", 1, "drain", << >>), e.drain + 1)
      o7 == o6 \o la.ops
      R(ret, fw, dev, o) ==
        [ret |-> ret, cur_firmware |-> fw, fpga |-> dev, ops |-> o]
  IN IF ~e.bitmode THEN R("SR_ERR", cur_firmware, device, o1)
     ELSE IF ~e.baud THEN R("SR_ERR", cur_firmware, device, o2)
     ELSE IF bb.ret # "SR_OK" THEN R(bb.ret, cur_firmware, "halted", o3)
     ELSE IF e.fw # "SR_OK" THEN R(e.fw, cur_firmware, "halted", o3)
     ELSE IF ~e.reset THEN R("SR_ERR", cur_firmware, ToString(firmware_idx), o5)
     ELSE IF la.ret # "SR_OK" THEN R(la.ret, cur_firmware, ToString(firmware_idx), o7)
     ELSE R("SR_OK", firmware_idx, ToString(firmware_idx), o7)

\* a loader that uploads even when the slot is already loaded
upload_firmware_always(cur_firmware, device, firmware_idx, e) ==
  upload_firmware_steps(cur_firmware, device, firmware_idx, e)

\* a loader that records the slot before it knows how the upload went
upload_firmware_early(cur_firmware, device, firmware_idx, e) ==
  IF cur_firmware = firmware_idx
    THEN [ret |-> "SR_OK", cur_firmware |-> cur_firmware, fpga |-> device,
          ops |-> << >>]
    ELSE [upload_firmware_steps(cur_firmware, device, firmware_idx, e)
            EXCEPT !.cur_firmware = firmware_idx]

upload_firmware(cur_firmware, device, firmware_idx, e) ==
  IF cur_firmware = firmware_idx
    THEN [ret |-> "SR_OK", cur_firmware |-> cur_firmware, fpga |-> device,
          ops |-> << >>]
    ELSE upload_firmware_steps(cur_firmware, device, firmware_idx, e)

(***************************************************************************)
(* Samplerate and channel policy.                                          *)
(***************************************************************************)
\* the timeout with the doubling done before the division
sigma_limit_samples_to_msec_late_division(cur_samplerate, limit_samples) ==
  (limit_samples * 1000) \div cur_samplerate + (2 * 65536 * 1000) \div cur_samplerate

sigma_limit_samples_to_msec(cur_samplerate, limit_samples) ==
  LET limit_msec == (limit_samples * 1000) \div cur_samplerate
      worst_cluster_time_ms == (65536 * 1000) \div cur_samplerate
  IN limit_msec + 2 * worst_cluster_time_ms

\* the search loop of sigma_set_samplerate: TRUE when the rate is rejected
samplerate_rejected(samplerate) ==
  ~ \E i \in 1..samplerates_count :
       samplerates[i] = samplerate /\ samplerates[i] # 0

\* the firmware slot sigma_set_samplerate asks upload_firmware for
samplerate_firmware(samplerate) ==
  IF samplerate <= SR_MHZ_50 THEN 0
  ELSE IF samplerate = SR_MHZ_100 THEN 1 ELSE 2

\* a sigma_set_samplerate that stores the rate without looking at the upload's
\* return value
sigma_set_samplerate_unchecked(d, device, samplerate, e) ==
  IF samplerate_rejected(samplerate)
    THEN [ret |-> "SR_ERR_SAMPLERATE", devc |-> d, fpga |-> device, ops |-> << >>]
  ELSE
    LET num_channels == IF samplerate <= SR_MHZ_50 THEN 16
                        ELSE IF samplerate = SR_MHZ_100 THEN 8 ELSE 4
        up == upload_firmware(d.cur_firmware, device,
                              samplerate_firmware(samplerate), e)
    IN [ret |-> up.ret,
        devc |-> [d EXCEPT !.cur_firmware = up.cur_firmware,
                           !.num_channels = num_channels,
                           !.cur_samplerate = samplerate,
                           !.samples_per_event = 16 \div num_channels,
                           !.state = "SIGMA_IDLE"],
        fpga |-> up.fpga, ops |-> up.ops]

sigma_set_samplerate(d, device, samplerate, e) ==
  IF samplerate_rejected(samplerate)
    THEN [ret |-> "SR_ERR_SAMPLERATE", devc |-> d, fpga |-> device, ops |-> << >>]
  ELSE
    LET slot == samplerate_firmware(samplerate)
        num_channels == IF samplerate <= SR_MHZ_50 THEN 16
                        ELSE IF samplerate = SR_MHZ_100 THEN 8 ELSE 4
        up == upload_firmware(d.cur_firmware, device, slot, e)
        d1 == IF up.ret = "SR_OK"
                THEN [d EXCEPT !.cur_firmware = up.cur_firmware,
                               !.num_channels = num_channels,
                               !.cur_samplerate = samplerate,
                               !.samples_per_event = 16 \div num_channels,
                               !.state = "SIGMA_IDLE"]
                ELSE [d EXCEPT !.cur_firmware = up.cur_firmware]
        d2 == IF up.ret = "SR_OK" /\ d1.limit_samples # 0
                THEN [d1 EXCEPT !.limit_msec =
                        sigma_limit_samples_to_msec(d1.cur_samplerate,
                                                    d1.limit_samples)]
                ELSE d1
    IN [ret |-> up.ret, devc |-> d2, fpga |-> up.fpga, ops |-> up.ops]

(***************************************************************************)
(* Trigger compiler: high-level trigger -> struct sigma_trigger.           *)
(* A trigger is [present, stages]; a stage is a sequence of matches        *)
(* [index, enabled, match]; present = FALSE is sr_session_trigger_get()    *)
(* returning NULL.                                                         *)
(***************************************************************************)
NoTrigger == [simplevalue |-> 0, simplemask |-> 0, risingmask |-> 0, fallingmask |-> 0]

RECURSIVE Flatten(_)
Flatten(stages) ==
  IF stages = << >> THEN << >> ELSE Head(stages) \o Flatten(Tail(stages))

\* the body of the inner loop of sigma_convert_trigger for one match;
\* acc = [t, trigger_set, ret], ret = "" while the loops go on.  fast_set and
\* simple_set are the tallies the two "only ... is supported" checks compare
\* trigger_set with
convert_match_checks(cur_samplerate, acc, match, fast_set, simple_set) ==
  LET channelbit == Pow2(match.index)
      t == acc.t
  IN IF ~match.enabled THEN acc
     ELSE IF cur_samplerate >= SR_MHZ_100 THEN
       IF acc.trigger_set > fast_set THEN [acc EXCEPT !.ret = "SR_ERR"]
       ELSE IF match.match = "SR_TRIGGER_FALLING" THEN
         [acc EXCEPT !.t.fallingmask = Or16(t.fallingmask, channelbit),
                     !.trigger_set = @ + 1]
       ELSE IF match.match = "SR_TRIGGER_RISING" THEN
         [acc EXCEPT !.t.risingmask = Or16(t.risingmask, channelbit),
                     !.trigger_set = @ + 1]
       ELSE [acc EXCEPT !.ret = "SR_ERR"]
     ELSE
       LET a1 ==
             IF match.match = "SR_TRIGGER_ONE" THEN
               [acc EXCEPT !.t.simplevalue = Or16(t.simplevalue, channelbit),
                           !.t.simplemask = Or16(t.simplemask, channelbit)]
             ELSE IF match.match = "SR_TRIGGER_ZERO" THEN
               [acc EXCEPT !.t.simplevalue = AndNot16(t.simplevalue, channelbit),
                           !.t.simplemask = Or16(t.simplemask, channelbit)]
             ELSE IF match.match = "SR_TRIGGER_FALLING" THEN
               [acc EXCEPT !.t.fallingmask = Or16(t.fallingmask, channelbit),
                           !.trigger_set = @ + 1]
             ELSE IF match.match = "SR_TRIGGER_RISING" THEN
               [acc EXCEPT !.t.risingmask = Or16(t.risingmask, channelbit),
                           !.trigger_set = @ + 1]
             ELSE acc
       IN IF a1.trigger_set > simple_set THEN [a1 EXCEPT !.ret = "SR_ERR"] ELSE a1

\* a fast-trigger branch that lets a second edge through
convert_match_second_fast(cur_samplerate, acc, match) ==
  convert_match_checks(cur_samplerate, acc, match, 1, 1)

\* a simple-trigger branch that lets a second edge through
convert_match_second_simple(cur_samplerate, acc, match) ==
  convert_match_checks(cur_samplerate, acc, match, 0, 2)

\* if (trigger_set) ... ; if (trigger_set > 1) ...
convert_match(cur_samplerate, acc, match) ==
  convert_match_checks(cur_samplerate, acc, match, 0, 1)

RECURSIVE convert_matches(_, _, _)
convert_matches(cur_samplerate, acc, matches) ==
  IF acc.ret # "" \/ matches = << >> THEN acc
  ELSE convert_matches(cur_samplerate,
                       convert_match(cur_samplerate, acc, Head(matches)),
                       Tail(matches))

\* which stages sigma_convert_trigger walks
trigger_stages_walked(trigger) == trigger.stages

sigma_convert_trigger(cur_samplerate, trigger) ==
  IF ~trigger.present THEN [ret |-> "SR_OK", trigger |-> NoTrigger]
  ELSE
    LET acc == convert_matches(cur_samplerate,
                               [t |-> NoTrigger, trigger_set |-> 0, ret |-> ""],
                               Flatten(trigger_stages_walked(trigger)))
    IN [ret |-> IF acc.ret = "" THEN "SR_OK" ELSE acc.ret, trigger |-> acc.t]

(***************************************************************************)
(* Trigger look-up tables.                                                 *)
(***************************************************************************)
RECURSIVE FromBits(_, _)
\* the 16-bit word whose bit j is bits[j], from bit j on
FromBits(bits, j) ==
  IF j = 16 THEN 0 ELSE bits[j] * Pow2(j) + FromBits(bits, j + 1)

\* a test that forgets the mask
lut_bit_cleared_unmasked(value, mask, i, j) ==
  \E k \in 0..3 : BitAt(value, i * 4 + k) # BitAt(j, k)

\* some pass of the k loop of build_lut_entry clears bit j of entry[i]
lut_bit_cleared(value, mask, i, j) ==
  \E k \in 0..3 :
    /\ BitAt(mask, i * 4 + k) = 1
    /\ BitAt(value, i * 4 + k) # BitAt(j, k)

\* build_lut_entry(value, mask, entry): entry[0..3]
build_lut_entry(value, mask) ==
  [i \in 0..3 |->
     FromBits([j \in 0..15 |-> IF lut_bit_cleared(value, mask, i, j) THEN 0 ELSE 1], 0)]

\* x[2][2] of add_trigger_function after the switch
op_table(oper) ==
  LET ones ==
        IF oper = "OP_LEVEL" THEN { << 0, 1 >>, << 1, 1 >> }
        ELSE IF oper = "OP_NOT" THEN { << 0, 0 >>, << 1, 0 >> }
        ELSE IF oper = "OP_RISE" THEN { << 0, 1 >> }
        ELSE IF oper = "OP_FALL" THEN { << 1, 0 >> }
        ELSE IF oper = "OP_RISEFALL" THEN { << 0, 1 >>, << 1, 0 >> }
        ELSE IF oper = "OP_NOTRISE" THEN { << 1, 1 >>, << 0, 0 >>, << 1, 0 >> }
        ELSE IF oper = "OP_NOTFALL" THEN { << 1, 1 >>, << 0, 0 >>, << 0, 1 >> }
        ELSE IF oper = "OP_NOTRISEFALL" THEN { << 1, 1 >>, << 0, 0 >> }
        ELSE {}
  IN [i \in 0..1 |-> [j \in 0..1 |-> IF << i, j >> \in ones THEN 1 ELSE 0]]

\* one pass of the "Transpose if neg is set" loops: x[i][j] and
\* x[1 - i][1 - j] change places
table_swap(x, i, j) ==
  [x EXCEPT ![i][j] = x[1 - i][1 - j], ![1 - i][1 - j] = x[i][j]]

\* the four passes, i and j each from 0 to 1
table_transpose(x) ==
  table_swap(table_swap(table_swap(table_swap(x, 0, 0), 0, 1), 1, 0), 1, 1)

\* rset of one pass of the "Update mask with function" loop
function_bit(func, aset, bset) ==
  LET rset == IF func \in {"FUNC_AND", "FUNC_NAND"} THEN aset * bset
              ELSE IF func \in {"FUNC_OR", "FUNC_NOR"} THEN (IF aset + bset > 0 THEN 1 ELSE 0)
              ELSE IF func \in {"FUNC_XOR", "FUNC_NXOR"} THEN (aset + bset) % 2
              ELSE 0
  IN IF func \in {"FUNC_NAND", "FUNC_NOR", "FUNC_NXOR"} THEN 1 - rset ELSE rset

\* the "Update mask with function" loop with the table x
update_mask(x, func, index, mask) ==
  FromBits([i \in 0..15 |->
              function_bit(func, BitAt(mask, i),
                           x[BitAt(i, 2 * index + 1)][BitAt(i, 2 * index + 0)])], 0)

\* add_trigger_function(oper, func, index, neg, mask): the new *mask
add_trigger_function(oper, func, index, neg, mask) ==
  update_mask(IF neg THEN table_transpose(op_table(oper)) ELSE op_table(oper),
              func, index, mask)

(***************************************************************************)
(* Capture decoder.                                                        *)
(* A decoder state S is [devc, feed, offered]: the device context (lastts, *)
(* lastsample, sent_samples change), the datafeed and the count of samples *)
(* handed to sigma_session_send.                                           *)
(***************************************************************************)
\* sr_session_send of a logic packet of n samples (n < 0: a wrapped length)
\* adjacent non-empty logic packets are kept as one entry; an empty packet
\* stays visible as an entry of its own
FeedLogic(f, n) ==
  IF n < 0 THEN Append(f, [k |-> "overread", n |-> n])
  ELSE IF n > 0 /\ f # << >> /\ f[Len(f)].k = "logic" /\ f[Len(f)].n > 0
    THEN [f EXCEPT ![Len(f)].n = @ + n]
  ELSE Append(f, [k |-> "logic", n |-> n])

\* std_session_send_df_trigger / std_session_send_df_end
FeedMark(f, kind) == Append(f, [k |-> kind, n |-> 0])

Offer(o, n) ==
  IF n < 0 THEN [o EXCEPT !.wrapped = TRUE] ELSE [o EXCEPT !.samples = @ + n]

\* send_now of sigma_session_send when a sample cap is configured
session_send_now(d, n) ==
  IF n < 0 \/ d.sent_samples + n > d.limit_samples
    THEN d.limit_samples - d.sent_samples
    ELSE n

\* the capped branch of sigma_session_send, send_now computed
session_send_capped(S, send_now) ==
  IF send_now = 0
    THEN [s |-> S, len |-> send_now]
    ELSE [s |-> [S EXCEPT !.devc.sent_samples = @ + send_now,
                          !.feed = FeedLogic(@, send_now)],
          len |-> send_now]

\* a wrapper that forwards every packet as it is
sigma_session_send_uncapped(S, n) ==
  [s |-> [S EXCEPT !.offered = Offer(@, n),
                   !.devc.sent_samples = IF n < 0 THEN @ ELSE @ + n,
                   !.feed = FeedLogic(@, n)],
   len |-> n]

\* sigma_session_send with a packet of n samples; len is logic->length /
\* logic->unitsize as the call leaves it
sigma_session_send(S, n) ==
  IF S.devc.limit_samples # 0
    THEN session_send_capped([S EXCEPT !.offered = Offer(@, n)],
                             session_send_now(S.devc, n))
    ELSE [s |-> [S EXCEPT !.offered = Offer(@, n), !.feed = FeedLogic(@, n)],
          len |-> n]

sigma_dram_cluster_ts(cluster) == cluster.timestamp_hi * 256 + cluster.timestamp_lo

sigma_dram_cluster_data(cl, idx) ==
  LET sample == cl.samples[idx + 1].sample_lo + cl.samples[idx + 1].sample_hi * 256
  IN (sample \div 256) + (sample % 256) * 256

\* x & (1 << k)
MaskBit(x, k) == BitAt(x, k) * Pow2(k)

sigma_deinterlace_100mhz_data(indata, idx) ==
  LET x == indata \div Pow2(idx)
  IN MaskBit(x \div Pow2(0 * 2 - 0), 0) + MaskBit(x \div Pow2(1 * 2 - 1), 1)
     + MaskBit(x \div Pow2(2 * 2 - 2), 2) + MaskBit(x \div Pow2(3 * 2 - 3), 3)
     + MaskBit(x \div Pow2(4 * 2 - 4), 4) + MaskBit(x \div Pow2(5 * 2 - 5), 5)
     + MaskBit(x \div Pow2(6 * 2 - 6), 6) + MaskBit(x \div Pow2(7 * 2 - 7), 7)

sigma_deinterlace_200mhz_data(indata, idx) ==
  LET x == indata \div Pow2(idx)
  IN MaskBit(x \div Pow2(0 * 4 - 0), 0) + MaskBit(x \div Pow2(1 * 4 - 1), 1)
     + MaskBit(x \div Pow2(2 * 4 - 2), 2) + MaskBit(x \div Pow2(3 * 4 - 3), 3)

\* the samples one event (one 16-bit item) decodes to, in order
event_samples(cur_samplerate, item16) ==
  IF cur_samplerate = SR_MHZ_200 THEN
    << sigma_deinterlace_200mhz_data(item16, 0),
       sigma_deinterlace_200mhz_data(item16, 1),
       sigma_deinterlace_200mhz_data(item16, 2),
       sigma_deinterlace_200mhz_data(item16, 3) >>
  ELSE IF cur_samplerate = SR_MHZ_100 THEN
    << sigma_deinterlace_100mhz_data(item16, 0),
       sigma_deinterlace_100mhz_data(item16, 1) >>
  ELSE << item16 >>

\* the event loop of sigma_decode_dram_cluster: the content of samples[]
RECURSIVE cluster_samples(_, _, _, _)
cluster_samples(cur_samplerate, cluster, i, events_in_cluster) ==
  IF i >= events_in_cluster THEN << >>
  ELSE event_samples(cur_samplerate, sigma_dram_cluster_data(cluster, i))
       \o cluster_samples(cur_samplerate, cluster, i + 1, events_in_cluster)

\* the loop of get_trigger_offset from index i on; samples is [0..7 -> sample]
RECURSIVE trigger_scan(_, _, _, _, _)
trigger_scan(samples, last_sample, sample, t, i) ==
  IF i = 8 THEN i
  ELSE
    LET ls == IF i > 0 THEN sample ELSE last_sample
        smp == samples[i]
    IN IF And16(smp, t.simplemask) # t.simplevalue
         THEN trigger_scan(samples, ls, smp, t, i + 1)
       ELSE IF And16(ls, t.risingmask) # 0
               \/ And16(smp, t.risingmask) # t.risingmask
         THEN trigger_scan(samples, ls, smp, t, i + 1)
       ELSE IF And16(ls, t.fallingmask) # t.fallingmask
               \/ And16(smp, t.fallingmask) # 0
         THEN trigger_scan(samples, ls, smp, t, i + 1)
       ELSE i

\* a return of the loop counter as the loop leaves it
get_trigger_offset_unmasked(samples, last_sample, t) ==
  trigger_scan(samples, last_sample, 0, t, 0)

\* return i & 0x7
get_trigger_offset(samples, last_sample, t) ==
  trigger_scan(samples, last_sample, 0, t, 0) % 8

RECURSIVE send_padding(_, _, _)
\* the rest of the j loop after one sigma_session_send returned r
send_padding_sent(r, j) == send_padding(r.s, r.len, j + 1)

\* the j loop that sends one padding packet samples_per_event times; the
\* packet keeps the length a previous call cut it to
send_padding(S, len, j) ==
  IF j >= S.devc.samples_per_event THEN S
  ELSE send_padding_sent(sigma_session_send(S, len), j)

RECURSIVE rle_expand(_, _, _)
\* the rest of the "decodes RLE" loop after one packet went out
rle_expand_sent(S, tsdiff, done) == After(S, rle_expand(S, tsdiff, done))

\* the "decodes RLE" loop: tsdiff copies of lastsample in packets of at most
\* 1024 samples; done counts the copies already stored
rle_expand(S, tsdiff, done) ==
  IF done >= tsdiff THEN S
  ELSE rle_expand_sent(send_padding(S, MIN(1024, tsdiff - done), 0),
                       tsdiff, done + MIN(1024, tsdiff - done))

\* tsdiff = ts - ss->lastts, in uint16_t
cluster_tsdiff(d, dram_cluster) ==
  (sigma_dram_cluster_ts(dram_cluster) - d.lastts) % 65536

\* sigma_decode_dram_cluster up to the end of the RLE loop
decode_cluster_rle(S, dram_cluster) ==
  rle_expand([S EXCEPT !.devc.lastts =
                (sigma_dram_cluster_ts(dram_cluster) + EVENTS_PER_CLUSTER) % 65536],
             cluster_tsdiff(S.devc, dram_cluster), 0)

\* the first 8 elements of samples[] when get_trigger_offset reads them: the
\* decoded events, then what the RLE loop left there, then junk: what an
\* element of the local array holds before it is written (indeterminate)
samples_buffer(dec, tsdiff, lastsample, junk) ==
  [k \in 0..7 |->
     IF k < Len(dec) THEN dec[k + 1]
     ELSE IF k < MIN(tsdiff, 1024) THEN lastsample
     ELSE junk]

\* element k of samples[] at the same moment, for any k
samples_elem(dec, tsdiff, lastsample, junk, k) ==
  IF k < Len(dec) THEN dec[k + 1]
  ELSE IF k < MIN(tsdiff, 1024) THEN lastsample
  ELSE junk

\* the packet after the trigger, or all of the cluster's samples
send_cluster_rest(S, rest) ==
  IF rest # 0 THEN sigma_session_send(S, rest).s ELSE S

\* the trigger marker, when a trigger position applies and markers are enabled
send_cluster_marker(S, d, triggered) ==
  IF triggered /\ d.use_triggers THEN [S EXCEPT !.feed = FeedMark(@, "trigger")]
  ELSE S

\* the slice before the trigger
send_cluster_head(S, d, triggered, trigger_offset) ==
  IF triggered /\ trigger_offset > 0
    THEN sigma_session_send(S, trigger_offset * d.samples_per_event).s
    ELSE S

\* sigma_decode_dram_cluster from "If a trigger position applies" on; d is the
\* device context on entry, S1 the state after the RLE loop, dec the decoded
\* samples
send_cluster(S1, d, dec, triggered, trigger_offset) ==
  [send_cluster_rest(
     send_cluster_marker(send_cluster_head(S1, d, triggered, trigger_offset),
                         d, triggered),
     IF triggered /\ trigger_offset > 0
       THEN Len(dec) - trigger_offset * d.samples_per_event
       ELSE Len(dec))
   EXCEPT !.devc.lastsample = IF Len(dec) = 0 THEN 0 ELSE dec[Len(dec)]]

\* sigma_decode_dram_cluster once the events are decoded
decode_cluster_data(S1, d, tsdiff, dec, triggered, junk) ==
  send_cluster(S1, d, dec, triggered,
               IF triggered
                 THEN get_trigger_offset(
                        samples_buffer(dec, tsdiff, d.lastsample, junk),
                        d.lastsample, d.trigger)
                 ELSE 0)

sigma_decode_dram_cluster(S, dram_cluster, events_in_cluster, triggered, junk) ==
  decode_cluster_data(
    decode_cluster_rle(S, dram_cluster), S.devc,
    cluster_tsdiff(S.devc, dram_cluster),
    cluster_samples(S.devc.cur_samplerate, dram_cluster, 0, events_in_cluster),
    triggered, junk)

RECURSIVE decode_clusters(_, _, _, _, _, _, _)
\* the rest of the cluster loop after cluster i - 1 was decoded
decode_clusters_next(S, line, events_in_line, clusters_in_line, trigger_cluster, junk, i) ==
  After(S, decode_clusters(S, line, events_in_line, clusters_in_line,
                           trigger_cluster, junk, i))

\* the cluster loop of decode_chunk_ts from cluster i on; line is the row's
\* sequence of clusters
decode_clusters(S, line, events_in_line, clusters_in_line, trigger_cluster, junk, i) ==
  IF i >= clusters_in_line THEN S
  ELSE decode_clusters_next(
         sigma_decode_dram_cluster(
           S, line[i + 1],
           IF i = clusters_in_line - 1 /\ events_in_line % EVENTS_PER_CLUSTER # 0
             THEN events_in_line % EVENTS_PER_CLUSTER
             ELSE EVENTS_PER_CLUSTER,
           i = trigger_cluster, junk),
         line, events_in_line, clusters_in_line, trigger_cluster, junk, i + 1)

\* clusters_in_line of decode_chunk_ts
chunk_clusters_in_line(events_in_line) ==
  (events_in_line + (EVENTS_PER_CLUSTER - 1)) \div EVENTS_PER_CLUSTER

decode_chunk_ts(S, line, events_in_line, trigger_event, junk) ==
  LET clusters_in_line == chunk_clusters_in_line(events_in_line)
      te == IF S.devc.cur_samplerate <= SR_MHZ_50
              THEN trigger_event - MIN(EVENTS_PER_CLUSTER - 1, trigger_event)
              ELSE trigger_event
      trigger_cluster ==
        IF trigger_event # NONE /\ trigger_event < EVENTS_PER_ROW
          THEN te \div EVENTS_PER_CLUSTER
          ELSE NONE
  IN decode_clusters(S, line, events_in_line, clusters_in_line, trigger_cluster, junk, 0)

(***************************************************************************)
(* One cluster, sample by sample: the packets sigma_decode_dram_cluster    *)
(* hands to sigma_session_send and the trigger marker, in order, each      *)
(* logic packet with the samples it carries.                               *)
(***************************************************************************)
LogicPacket(data) == [k |-> "logic", data |-> data]

\* a padding packet that goes out once whatever the rate is
rle_batch_once(d, n) == << LogicPacket([i \in 1..n |-> d.lastsample]) >>

\* one packet of n copies of lastsample, sent samples_per_event times
rle_batch(d, n) ==
  Repeat(LogicPacket([i \in 1..n |-> d.lastsample]), d.samples_per_event)

RECURSIVE rle_packets(_, _, _)
\* the packets of the "decodes RLE" loop; done counts the copies stored
rle_packets(d, tsdiff, done) ==
  IF done >= tsdiff THEN << >>
  ELSE rle_batch(d, MIN(1024, tsdiff - done))
       \o rle_packets(d, tsdiff, done + MIN(1024, tsdiff - done))

\* the packets from "If a trigger position applies" on
trigger_packets(d, dec, tsdiff, triggered, trigger_offset, junk) ==
  LET trig_count == IF triggered /\ trigger_offset > 0
                      THEN trigger_offset * d.samples_per_event ELSE 0
      send_count == Len(dec) - trig_count
  IN (IF trig_count > 0
        THEN << LogicPacket([k \in 1..trig_count |->
                  samples_elem(dec, tsdiff, d.lastsample, junk, k - 1)]) >>
        ELSE << >>)
     \o (IF triggered /\ d.use_triggers THEN << [k |-> "trigger", data |-> << >>] >>
         ELSE << >>)
     \o (IF send_count = 0 THEN << >>
         ELSE IF send_count < 0 THEN << [k |-> "overread", data |-> << >>] >>
         ELSE << LogicPacket([k \in 1..send_count |->
                   samples_elem(dec, tsdiff, d.lastsample, junk, trig_count + k - 1)]) >>)

\* the packets of the cluster's own events
event_packets(d, dram_cluster, events_in_cluster, triggered, junk) ==
  LET dec == cluster_samples(d.cur_samplerate, dram_cluster, 0, events_in_cluster)
      tsdiff == cluster_tsdiff(d, dram_cluster)
  IN trigger_packets(d, dec, tsdiff, triggered,
       IF triggered
         THEN get_trigger_offset(samples_buffer(dec, tsdiff, d.lastsample, junk),
                                 d.lastsample, d.trigger)
         ELSE 0,
       junk)

(***************************************************************************)
(* The device's sample memory, as sigma_read_dram returns it.              *)
(* A scenario [gap, wave, junk] fixes what was captured: cluster g (counted*)
(* from row 0) has timestamp g * (7 + gap), so gap ticks pass unrecorded   *)
(* between clusters; wave fixes the pin levels of each event.              *)
(***************************************************************************)
wave_item(wave, e) ==
  IF wave = "low" THEN 0
  ELSE IF wave = "high" THEN 65535
  ELSE IF wave = "alt" THEN (IF e % 2 = 0 THEN 0 ELSE 65535)
  ELSE IF wave = "step" THEN 49152
  ELSE e % 65536

dram_cluster(scn, row, c) ==
  LET g == row * CLUSTERS_PER_ROW + c
      ts == (g * (EVENTS_PER_CLUSTER + scn.gap)) % 65536
  IN [timestamp_lo |-> ts % 256,
      timestamp_hi |-> ts \div 256,
      samples |-> [k \in 1..EVENTS_PER_CLUSTER |->
                     LET v == wave_item(scn.wave, g * EVENTS_PER_CLUSTER + (k - 1))
                     IN [sample_lo |-> v \div 256, sample_hi |-> v % 256]]]

dram_row(scn, row) == [c \in 1..CLUSTERS_PER_ROW |-> dram_cluster(scn, row, c - 1)]

(***************************************************************************)
(* Register protocol, at the level of whole commands.                      *)
(***************************************************************************)
\* sigma_set_register(reg, value): one write of 2 + 2 command bytes
sigma_set_register(reg, value) ==
  << LinkOp("write", 4, reg, << value >>) >>

\* sigma_read_register(reg, data, 1): 3 command bytes, then the read
sigma_read_register(reg) ==
  << LinkOp("write", 3, reg, << >>), LinkOp("read", 1, reg, << >>) >>

(***************************************************************************)
(* Register protocol, byte by byte.  The opcode values are in protocol.h;  *)
(* a command byte is kept as its opcode and the bits ORed into it.         *)
(***************************************************************************)
\* sizeof(buf) in sigma_write_register
WRITE_BUF_SIZE == 80

CmdByte(opcode, bits) == [opcode |-> opcode, bits |-> bits]

\* what ftdi_write_data can answer: all bytes taken, fewer taken, an error
WriteOutcomes == {"full", "short", "fail"}

\* the return value of sigma_write(buf, size)
sigma_write(size, outcome) ==
  IF outcome = "fail" THEN NONE
  ELSE IF outcome = "short" /\ size > 0 THEN size - 1
  ELSE size

\* a loop body that stores the high nibble first
data_pair_high_first(d) ==
  << CmdByte("REG_DATA_HIGH_WRITE", d \div 16), CmdByte("REG_DATA_LOW", d % 16) >>

\* the two command bytes the loop of sigma_write_register stores for one
\* data byte
data_pair(d) ==
  << CmdByte("REG_DATA_LOW", d % 16), CmdByte("REG_DATA_HIGH_WRITE", d \div 16) >>

RECURSIVE data_pairs(_)
data_pairs(data) ==
  IF data = << >> THEN << >> ELSE data_pair(Head(data)) \o data_pairs(Tail(data))

\* sigma_write_register(reg, data, len) with len = Len(data): what reaches
\* the link and the return value, which is SR_ERR_BUG or that of sigma_write
\* (then given in written)
sigma_write_register(reg, data, outcome) ==
  IF 2 * Len(data) + 2 > WRITE_BUF_SIZE
  THEN [ret |-> "SR_ERR_BUG", written |-> 0, ops |-> << >>]
  ELSE LET buf == << CmdByte("REG_ADDR_LOW", reg % 16),
                     CmdByte("REG_ADDR_HIGH", reg \div 16) >> \o data_pairs(data)
       IN [ret |-> "sigma_write", written |-> sigma_write(Len(buf), outcome),
           ops |-> << LinkOp("write", Len(buf), reg, buf) >>]

\* buf[0..2] of sigma_read_register: the address and one REG_READ_ADDR
read_register_command(reg) ==
  << CmdByte("REG_ADDR_LOW", reg % 16), CmdByte("REG_ADDR_HIGH", reg \div 16),
     CmdByte("REG_READ_ADDR", 0) >>

\* sigma_read_register(reg, data, len): the command is written whole, its
\* result is not looked at, then len bytes are read
sigma_read_register_len(reg, len) ==
  << LinkOp("write", Len(read_register_command(reg)), reg, read_register_command(reg)),
     LinkOp("read", len, reg, << >>) >>

\* the "--pos; if ((pos & 0x1ff) == 0x1ff) pos -= 64" step on a uint32_t; a
\* value of 2^31 or more is written as the negative number that has the same
\* 32 bits (0xffffffff is -1), so the decrement of 0 wraps to 0xffffffff
adjust_pos(raw) ==
  LET q == raw - 1 IN IF q % 512 = 511 THEN q - 64 ELSE q

\* pos >> k of a uint32_t written as above
Shr(p, k) ==
  IF p >= 0 THEN p \div Pow2(k) ELSE (p \div Pow2(k)) + Pow2(32 - k)

sigma_read_pos(raw_stop, raw_trigger) ==
  [stoppos |-> adjust_pos(raw_stop),
   triggerpos |-> adjust_pos(raw_trigger),
   ops |-> << LinkOp("write", 7, "READ_TRIGGER_POS_LOW", << >>),
              LinkOp("read", 6, "READ_TRIGGER_POS_LOW", << >>) >>]

\* a DRAM command byte: the opcode, ORed with REG_DRAM_SEL_BOOL(sel) when sel
\* is 0 or 1, with nothing when sel is NONE
DramByte(opcode, sel) == [opcode |-> opcode, sel |-> sel]

\* a loop body that fetches into the buffer it is about to transfer
dram_chunk_same_buffer(chunk, numchunks) ==
  (IF chunk # numchunks - 1 THEN << DramByte("REG_DRAM_BLOCK", chunk % 2) >> ELSE << >>)
  \o << DramByte("REG_DRAM_BLOCK_DATA", chunk % 2) >>
  \o (IF chunk # numchunks - 1 THEN << DramByte("REG_DRAM_WAIT_ACK", NONE) >> ELSE << >>)

\* the bytes one pass of the chunk loop of sigma_read_dram stores
dram_chunk(chunk, numchunks) ==
  LET sel == chunk % 2
      is_last == chunk = numchunks - 1
  IN (IF ~is_last THEN << DramByte("REG_DRAM_BLOCK", 1 - sel) >> ELSE << >>)
     \o << DramByte("REG_DRAM_BLOCK_DATA", sel) >>
     \o (IF ~is_last THEN << DramByte("REG_DRAM_WAIT_ACK", NONE) >> ELSE << >>)

RECURSIVE dram_chunks(_, _)
\* the chunk loop from chunk on
dram_chunks(chunk, numchunks) ==
  IF chunk >= numchunks THEN << >>
  ELSE dram_chunk(chunk, numchunks) \o dram_chunks(chunk + 1, numchunks)

\* the command buffer sigma_read_dram writes after the MEMROW write
dram_command(numchunks) ==
  << DramByte("REG_DRAM_BLOCK", NONE), DramByte("REG_DRAM_WAIT_ACK", NONE) >>
  \o dram_chunks(0, numchunks)

\* sigma_read_dram(startchunk, numchunks): MEMROW, the block commands, the read
sigma_read_dram(startchunk, numchunks) ==
  << LinkOp("write", 6, "WRITE_MEMROW", << startchunk >>),
     LinkOp("write", Len(dram_command(numchunks)), "dram_block",
            dram_command(numchunks)),
     LinkOp("read", numchunks * 1024, "dram_block", << >>) >>

(***************************************************************************)
(* Acquisition controller.                                                 *)
(***************************************************************************)
\* a deadline test that fires one millisecond late
sigma_capture_mode_late(d, current_time) ==
  (current_time - d.start_time) \div 1000 > d.limit_msec

\* sigma_capture_mode: has the sampling duration passed?
sigma_capture_mode(d, current_time) ==
  LET running_msec == (current_time - d.start_time) \div 1000
  IN running_msec >= d.limit_msec

\* sigma_receive_data: does this invocation call download_capture?
sigma_receive_data(d, current_time) ==
  IF d.state = "SIGMA_IDLE" THEN FALSE
  ELSE IF d.state = "SIGMA_STOPPING" THEN TRUE
  ELSE IF d.state = "SIGMA_CAPTURE" THEN sigma_capture_mode(d, current_time)
  ELSE FALSE

NoDownload ==
  [stoppos |-> 0, triggerpos |-> 0, modestatus |-> {}, dl_first_line |-> 0,
   dl_lines_total |-> 0, dl_lines_done |-> 0, dl_events_in_line |-> EVENTS_PER_ROW,
   trg_line |-> NONE, trg_event |-> NONE, polls |-> 0,
   scn |-> [gap |-> 0, wave |-> "low", junk |-> 0]]

\* dl_events_in_line as row i of the chunk leaves it
line_events(l, i) ==
  IF l.dl_lines_done + i = l.dl_lines_total - 1
    THEN [l EXCEPT !.dl_events_in_line = l.stoppos % 512]
    ELSE l

\* trigger_event of row i of the chunk: the test is on the number of the row
\* within the download
line_trigger_event(l, i) ==
  IF l.dl_lines_done + i = l.trg_line THEN l.trg_event ELSE NONE

RECURSIVE decode_lines(_, _, _, _)
\* the rest of the row loop after row i - 1 was decoded
decode_lines_next(S, l, dl_line, i) == After(S, decode_lines(S, l, dl_line, i))

\* one row of the chunk: l is the locals with dl_events_in_line set for it
decode_line(S, l, dl_line, i) ==
  decode_lines_next(
    decode_chunk_ts(S, dram_row(l.scn, (dl_line + i) % ROW_COUNT),
                    l.dl_events_in_line,
                    line_trigger_event(l, i),
                    l.scn.junk),
    l, dl_line, i + 1)

\* the row loop of one chunk of download_capture, from row i on
decode_lines(S, l, dl_line, i) ==
  IF i >= MIN(chunks_per_read, l.dl_lines_total - l.dl_lines_done)
    THEN [s |-> S, l |-> l]
    ELSE decode_line(S, line_events(l, i), dl_line, i)

(***************************************************************************)
(* Inputs.                                                                 *)
(***************************************************************************)
SupportedRates == { samplerates[i] : i \in 1..samplerates_count }

\* rates the configuration surface asks for: the table, and two outside it
RateInputs == SupportedRates \cup {0, 150000000}

\* the cable and the device behave
OkEnv ==
  [bitmode |-> TRUE, baud |-> TRUE, init |-> << "high" >>, data |-> FALSE,
   fw |-> "SR_OK",
   reset |-> TRUE, drain |-> 0, la |-> "ok"]

\* the uploads in which INIT_B is high at the first read and nothing is left
\* to drain
PromptEnvs == { e \in UploadEnvs : e.init = << "high" >> /\ e.drain = 0 }

\* the uploads in which INIT_B is high at the first read, and those in which
\* all goes well once the wait for INIT_B is over
TriedEnvs ==
  { e \in UploadEnvs :
      \/ e.init = << "high" >>
      \/ e.fw = "SR_OK" /\ e.reset /\ e.drain = 0 /\ e.la = "ok" }

\* every rate with a well-behaved cable, and the rates of two firmware slots
\* with the ways an upload can go
SamplerateInputs ==
  { << r, OkEnv >> : r \in RateInputs }
  \cup { << SR_MHZ_200, e >> : e \in TriedEnvs }
  \cup { << SR_MHZ_50, e >> : e \in PromptEnvs }

\* sample caps the configuration surface sets while rates are being tried
ConfLimits == {0, 1000000}

Matches == {"SR_TRIGGER_ZERO", "SR_TRIGGER_ONE", "SR_TRIGGER_RISING",
            "SR_TRIGGER_FALLING", "SR_TRIGGER_EDGE"}

Match(index, enabled, match) == [index |-> index, enabled |-> enabled, match |-> match]

NullTrigger == [present |-> FALSE, stages |-> << >>]

\* triggers the session hands over when a capture is armed
ArmTriggers ==
  { NullTrigger,
    [present |-> TRUE, stages |-> << << Match(3, TRUE, "SR_TRIGGER_RISING") >> >>],
    [present |-> TRUE, stages |-> << << Match(1, TRUE, "SR_TRIGGER_RISING"),
                                         Match(2, TRUE, "SR_TRIGGER_FALLING") >> >>] }

\* raw 24-bit counters the device reports
RawStops == {3, 10}
RawTriggers == {1}
RoundChoices == {FALSE}

Scenarios ==
  { [gap |-> 0, wave |-> "alt", junk |-> 0], [gap |-> 3, wave |-> "low", junk |-> 0] }

TimeSteps == {1000}

(***************************************************************************)
(* Initial states.                                                         *)
(***************************************************************************)
\* the device context as dev_open leaves it
InitDevc ==
  [cur_firmware |-> 0 - 1, cur_samplerate |-> samplerates[1], num_channels |-> 0,
   samples_per_event |-> 0, state |-> "SIGMA_IDLE", limit_samples |-> 0,
   limit_msec |-> 0, start_time |-> 0, sent_samples |-> 0, lastts |-> 0,
   lastsample |-> 0, trigger |-> NoTrigger, use_triggers |-> FALSE]

NoOffer == [samples |-> 0, wrapped |-> FALSE]

NoInput == [rate |-> 0, limit |-> 0, trigger |-> NullTrigger]

\* the device context after sigma_set_samplerate(rate) succeeded on a fresh
\* context and config_set stored the sample cap
Configured(rate, limit) ==
  LET r == sigma_set_samplerate(InitDevc, "unknown", rate, OkEnv)
  IN [devc |-> [r.devc EXCEPT !.limit_samples = limit,
                              !.limit_msec = sigma_limit_samples_to_msec(rate, limit)],
      fpga |-> r.fpga]

\* rates the acquisition runs are configured with
AcquisitionRates == {SR_MHZ_50, SR_MHZ_200}

\* an acquisition session starts from a configured device
Init ==
  /\ \E rate \in AcquisitionRates, limit \in 0..MaxLimit :
       /\ devc = Configured(rate, limit).devc
       /\ fpga = Configured(rate, limit).fpga
  /\ now = 0
  /\ pc = "idle"
  /\ dl = NoDownload
  /\ feed = << >>
  /\ offered = NoOffer
  /\ ops = << >>
  /\ last = Call("config_set", 0, "SR_OK", "")
  /\ ncap = 0
  /\ inp = NoInput

\* configuration starts from a freshly opened device
ConfInit ==
  /\ devc = InitDevc
  /\ fpga = "unknown"
  /\ now = 0
  /\ pc = "idle"
  /\ dl = NoDownload
  /\ feed = << >>
  /\ offered = NoOffer
  /\ ops = << >>
  /\ last = Call("dev_open", 0, "SR_OK", "")
  /\ ncap = 0
  /\ inp = NoInput

(***************************************************************************)
(* Operations.                                                             *)
(***************************************************************************)
SetSamplerate ==
  /\ pc = "idle"
  /\ \E i \in SamplerateInputs :
       LET r == sigma_set_samplerate(devc, fpga, i[1], i[2])
       IN /\ devc' = r.devc
          /\ fpga' = r.fpga
          /\ ops' = r.ops
          /\ last' = Call("sigma_set_samplerate", i[1], r.ret, "")
  /\ UNCHANGED << now, pc, dl, feed, offered, ncap, inp >>

\* config_set(SR_CONF_LIMIT_SAMPLES) between acquisitions
SetLimitSamplesOf(Limits) ==
  /\ pc = "idle"
  /\ devc.state = "SIGMA_IDLE"
  /\ \E limit \in Limits :
       /\ devc' = [devc EXCEPT !.limit_samples = limit,
                               !.limit_msec =
                                  sigma_limit_samples_to_msec(devc.cur_samplerate, limit)]
       /\ last' = Call("config_set", limit, "SR_OK", "")
  /\ ops' = << >>
  /\ feed' = << >>
  /\ offered' = NoOffer
  /\ UNCHANGED << fpga, now, pc, dl, ncap, inp >>

SetLimitSamples == SetLimitSamplesOf(0..MaxLimit)

ConfSetLimitSamples == SetLimitSamplesOf(ConfLimits)

\* dev_acquisition_start: compile the trigger, record start_time, enter Capture
ArmOf(Triggers, Uses) ==
  /\ pc = "idle"
  /\ devc.state = "SIGMA_IDLE"
  /\ devc.cur_firmware # 0 - 1
  /\ \E trigger \in Triggers, use_triggers \in Uses :
       LET c == sigma_convert_trigger(devc.cur_samplerate, trigger)
       IN IF c.ret # "SR_OK"
            THEN /\ devc' = [devc EXCEPT !.trigger = c.trigger]
                 /\ last' = Call("dev_acquisition_start", 0, "SR_ERR", "")
            ELSE /\ devc' = [devc EXCEPT !.trigger = c.trigger,
                                         !.use_triggers = use_triggers,
                                         !.start_time = now,
                                         !.state = "SIGMA_CAPTURE"]
                 /\ last' = Call("dev_acquisition_start", 0, "SR_OK", "")
  /\ ops' = << >>
  /\ feed' = << >>
  /\ offered' = NoOffer

Arm ==
  /\ ncap < MaxCaptures
  /\ ArmOf(ArmTriggers, BOOLEAN)
  /\ ncap' = IF devc'.state = "SIGMA_CAPTURE" THEN ncap + 1 ELSE ncap
  /\ UNCHANGED << fpga, now, pc, dl, inp >>

ConfArm ==
  /\ ArmOf({NullTrigger}, {FALSE})
  /\ UNCHANGED << fpga, now, pc, dl, ncap, inp >>

\* dev_acquisition_stop while capturing
Stop ==
  /\ pc = "idle"
  /\ devc.state = "SIGMA_CAPTURE"
  /\ devc' = [devc EXCEPT !.state = "SIGMA_STOPPING"]
  /\ last' = Call("dev_acquisition_stop", 0, "SR_OK", "")
  /\ ops' = << >>
  /\ UNCHANGED << fpga, now, pc, dl, feed, offered, ncap, inp >>

\* the monotonic clock moves on while a capture runs
AdvanceTime ==
  /\ pc = "idle"
  /\ devc.state = "SIGMA_CAPTURE"
  /\ \E step \in TimeSteps :
       /\ now + step <= MaxNow
       /\ now' = now + step
  /\ last' = Call("clock", 0, "", "")
  /\ ops' = << >>
  /\ UNCHANGED << devc, fpga, pc, dl, feed, offered, ncap, inp >>

\* sigma_receive_data; when it calls download_capture, up to the first
\* mode-status read of the force-stop loop
Tick ==
  /\ pc = "idle"
  /\ IF sigma_receive_data(devc, now)
       THEN /\ devc' = [devc EXCEPT !.state = "SIGMA_DOWNLOAD"]
            /\ ops' = sigma_set_register("WRITE_MODE", "WMR_FORCESTOP|WMR_SDRAMWRITEEN")
            /\ pc' = "poll"
            /\ dl' = NoDownload
            /\ last' = Call("sigma_receive_data", 0, "",
                             IF devc.state = "SIGMA_STOPPING" THEN "stopping"
                                                              ELSE "deadline")
       ELSE /\ ops' = << >>
            /\ last' = Call("sigma_receive_data", 0, "TRUE", "")
            /\ UNCHANGED << devc, pc, dl >>
  /\ UNCHANGED << fpga, now, feed, offered, ncap, inp >>

\* a poll that ends at the first mode-status byte it gets
poll_done_at_once(answer) == TRUE

\* the condition that ends the do-while loop: modestatus & RMR_POSTTRIGGERED
poll_done(answer) == answer = "posttriggered"

\* one sigma_read_register(READ_MODE) of the do-while loop; answer is what the
\* read brings: "fail", or a mode-status byte with POSTTRIGGERED clear ("low")
\* or set
DownloadPoll ==
  /\ pc = "poll"
  /\ ops' = sigma_read_register("READ_MODE")
  /\ \E answer \in {"fail", "low", "posttriggered"} :
       IF answer = "fail"
         THEN /\ pc' = "idle"
              /\ last' = Call("download_capture", 0, "FALSE", "poll")
              /\ dl' = NoDownload
       ELSE IF poll_done(answer)
         THEN /\ pc' = "setup"
              /\ dl' = dl
              /\ last' = Call("download_capture", 0, "", answer)
         ELSE /\ dl.polls < MaxPolls
              /\ pc' = "poll"
              /\ dl' = [dl EXCEPT !.polls = @ + 1]
              /\ last' = Call("download_capture", 0, "", "poll")
  /\ UNCHANGED << devc, fpga, now, feed, offered, ncap, inp >>

\* download_capture from "Set SDRAM Read Enable" to the allocation of dram_line
DownloadSetupOf(Stops, Triggers, Rounds, Memories) ==
  /\ pc = "setup"
  /\ \E raw_stop \in Stops, raw_trigger \in Triggers, scn \in Memories,
        triggered \in BOOLEAN, round \in Rounds,
        outcome \in {"ok", "read_failed", "malloc_failed"} :
       LET pos == sigma_read_pos(raw_stop, raw_trigger)
           modestatus == (IF triggered THEN {"RMR_TRIGGERED"} ELSE {})
                         \cup (IF round THEN {"RMR_ROUND"} ELSE {})
                         \cup {"RMR_POSTTRIGGERED"}
           total == Shr(pos.stoppos, ROW_SHIFT) + 1
           l == [dl EXCEPT
                   !.stoppos = pos.stoppos,
                   !.triggerpos = pos.triggerpos,
                   !.modestatus = modestatus,
                   !.scn = scn,
                   !.trg_line = IF triggered THEN Shr(pos.triggerpos, 9) ELSE NONE,
                   !.trg_event = IF triggered THEN pos.triggerpos % 512 ELSE NONE,
                   !.dl_first_line = IF round THEN total + 1 ELSE 0,
                   !.dl_lines_total = IF round THEN ROW_COUNT - 2 ELSE total,
                   !.dl_lines_done = 0]
       IN /\ ops' = sigma_set_register("WRITE_MODE", "WMR_SDRAMREADEN")
                    \o pos.ops \o sigma_read_register("READ_MODE")
          /\ IF outcome = "read_failed"
               THEN /\ pc' = "idle"
                    /\ dl' = NoDownload
                    /\ devc' = devc
                    /\ last' = Call("download_capture", 0, "FALSE", "modestatus")
             ELSE IF outcome = "malloc_failed"
               THEN /\ pc' = "idle"
                    /\ dl' = NoDownload
                    /\ devc' = [devc EXCEPT !.sent_samples = 0]
                    /\ last' = Call("download_capture", 0, "FALSE", "malloc")
             ELSE /\ pc' = "lines"
                  /\ dl' = l
                  /\ devc' = [devc EXCEPT !.sent_samples = 0]
                  /\ last' = Call("download_capture", 0, "", "setup")
  /\ UNCHANGED << fpga, now, feed, offered, ncap, inp >>

DownloadSetup == DownloadSetupOf(RawStops, RawTriggers, RoundChoices, Scenarios)

\* a loop that forgets the wrap of the row address
download_line_unwrapped(l) == l.dl_first_line + l.dl_lines_done

\* dl_line of one pass of the loop
download_line(l) == (l.dl_first_line + l.dl_lines_done) % ROW_COUNT

\* dl_lines_curr of one pass of the loop
download_lines_curr(l) == MIN(chunks_per_read, l.dl_lines_total - l.dl_lines_done)

\* the first row read sets the initial timestamp
first_line_ts(d, l, dl_line) ==
  IF l.dl_lines_done = 0
    THEN [d EXCEPT !.lastts = sigma_dram_cluster_ts(dram_cluster(l.scn, dl_line, 0)),
                   !.lastsample = 0]
    ELSE d

\* what one pass of the loop leaves behind: r is the result of its row loop
DownloadLinesDone(r, dl_lines_curr) ==
  /\ devc' = r.s.devc
  /\ feed' = r.s.feed
  /\ offered' = r.s.offered
  /\ dl' = [r.l EXCEPT !.dl_lines_done = @ + dl_lines_curr]

\* one pass with dl_line and dl_lines_curr computed
DownloadLinesAt(dl_line, dl_lines_curr) ==
  /\ ops' = sigma_read_dram(dl_line, dl_lines_curr)
  /\ DownloadLinesDone(
       decode_lines([devc |-> first_line_ts(devc, dl, dl_line), feed |-> feed,
                     offered |-> offered],
                    dl, dl_line, 0),
       dl_lines_curr)

\* one pass of the while (dl_lines_total > dl_lines_done) loop
DownloadLines ==
  /\ pc = "lines"
  /\ dl.dl_lines_total > dl.dl_lines_done
  /\ DownloadLinesAt(download_line(dl), download_lines_curr(dl))
  /\ last' = Call("download_capture", 0, "", "lines")
  /\ UNCHANGED << fpga, now, pc, ncap, inp >>

\* the end of download_capture
DownloadFinish ==
  /\ pc = "lines"
  /\ dl.dl_lines_total <= dl.dl_lines_done
  /\ feed' = FeedMark(feed, "end")
  /\ devc' = [devc EXCEPT !.state = "SIGMA_IDLE"]
  /\ dl' = NoDownload
  /\ pc' = "idle"
  /\ ops' = << >>
  /\ last' = Call("download_capture", 0, "TRUE", "")
  /\ UNCHANGED << fpga, now, offered, ncap, inp >>

(***************************************************************************)
(* Specifications.                                                         *)
(***************************************************************************)
\* an acquisition session on a configured device
Next ==
  \/ SetLimitSamples
  \/ Arm
  \/ Stop
  \/ AdvanceTime
  \/ Tick
  \/ DownloadPoll
  \/ DownloadSetup
  \/ DownloadLines
  \/ DownloadFinish

Spec == Init /\ [][Next]_vars

\* configuring the device: rates, firmware uploads, sample caps, arm and stop
ConfNext ==
  \/ SetSamplerate
  \/ ConfSetLimitSamples
  \/ ConfArm
  \/ Stop

SpecConf == ConfInit /\ [][ConfNext]_vars

(***************************************************************************)
(* sigma_limit_samples_to_msec on its own: a configured rate, a sample     *)
(* limit, one call.                                                        *)
(***************************************************************************)
MsecLimits == {0, 1, 2, 199, 200, 1000, 1999, 2000000}

MsecInit ==
  /\ \E rate \in SupportedRates, limit \in MsecLimits :
       /\ devc = Configured(rate, 0).devc
       /\ fpga = Configured(rate, 0).fpga
       /\ inp = [rate |-> rate, limit |-> limit, trigger |-> NullTrigger]
  /\ now = 0
  /\ pc = "idle"
  /\ dl = NoDownload
  /\ feed = << >>
  /\ offered = NoOffer
  /\ ops = << >>
  /\ last = Call("sigma_set_samplerate", inp.rate, "SR_OK", "")
  /\ ncap = 0

\* the caller stores the result in limit_msec
LimitSamplesToMsec ==
  /\ last.op = "sigma_set_samplerate"
  /\ devc' = [devc EXCEPT !.limit_msec =
                sigma_limit_samples_to_msec(devc.cur_samplerate, inp.limit)]
  /\ last' = Call("sigma_limit_samples_to_msec", inp.limit, "", "")
  /\ UNCHANGED << fpga, now, pc, dl, feed, offered, ops, ncap, inp >>

MsecNext == LimitSamplesToMsec

SpecMsec == MsecInit /\ [][MsecNext]_vars

(***************************************************************************)
(* sigma_convert_trigger on its own: a configured rate, a session trigger, *)
(* one call.                                                               *)
(***************************************************************************)
TriggerRates == {SR_KHZ_200, SR_MHZ_50, SR_MHZ_100, SR_MHZ_200}

TriggerMatches ==
  { Match(i, en, m) : i \in {0, 1}, en \in BOOLEAN, m \in Matches }

RECURSIVE MatchLists(_)
MatchLists(n) ==
  IF n = 0 THEN { << >> }
  ELSE MatchLists(n - 1)
       \cup { Append(l, m) : l \in { x \in MatchLists(n - 1) : Len(x) = n - 1 },
                             m \in TriggerMatches }

\* the matches in one stage, or the first match in a stage of its own
StagesOf(l) ==
  { << l >> } \cup (IF Len(l) >= 2 THEN { << << Head(l) >>, Tail(l) >> } ELSE {})

SessionTriggers ==
  { NullTrigger }
  \cup { [present |-> TRUE, stages |-> st] :
           st \in UNION { StagesOf(l) : l \in MatchLists(MaxMatches) } }

TrigInit ==
  /\ \E rate \in TriggerRates, trigger \in SessionTriggers :
       /\ devc = Configured(rate, 0).devc
       /\ fpga = Configured(rate, 0).fpga
       /\ inp = [rate |-> rate, limit |-> 0, trigger |-> trigger]
  /\ now = 0
  /\ pc = "idle"
  /\ dl = NoDownload
  /\ feed = << >>
  /\ offered = NoOffer
  /\ ops = << >>
  /\ last = Call("sigma_set_samplerate", inp.rate, "SR_OK", "")
  /\ ncap = 0

ConvertTrigger ==
  /\ last.op = "sigma_set_samplerate"
  /\ LET c == sigma_convert_trigger(devc.cur_samplerate, inp.trigger)
     IN /\ devc' = [devc EXCEPT !.trigger = c.trigger]
        /\ last' = Call("sigma_convert_trigger", 0, c.ret, "")
  /\ UNCHANGED << fpga, now, pc, dl, feed, offered, ops, ncap, inp >>

TrigNext == ConvertTrigger

SpecTrig == TrigInit /\ [][TrigNext]_vars

(***************************************************************************)
(* The rows a download asks for.  A wrapped sample memory is read in 1024  *)
(* passes of the loop of download_capture; this specification follows the  *)
(* loop through all of them and tracks what each pass asks of the device   *)
(* and the locals that steer the loop (decode_chunk_ts has no access to    *)
(* them), and leaves the samples each pass decodes to Spec.                *)
(***************************************************************************)
\* raw stop counters: in row 0, the wrapped counter, in rows 1 and 32 (a
\* second chunk), and in the last row
RowStops == {0, 3, 513, 16387, 16777215}

\* a wrapped counter is met with ROUND set
RowsSetup ==
  /\ DownloadSetupOf(RowStops, RawTriggers, BOOLEAN, {[gap |-> 0, wave |-> "low", junk |-> 0]})
  /\ dl'.stoppos < 0 => "RMR_ROUND" \in dl'.modestatus

\* the rows of one pass that decode_chunk_ts gets a trigger event for: the
\* address of the row in DRAM and the event offset
triggered_rows(l) ==
  { [row |-> (download_line(l) + i) % ROW_COUNT, event |-> line_trigger_event(l, i)] :
      i \in { k \in 0..(download_lines_curr(l) - 1) : line_trigger_event(l, k) # NONE } }

\* one pass of the while (dl_lines_total > dl_lines_done) loop, as the device
\* sees it
RequestLines ==
  /\ pc = "lines"
  /\ dl.dl_lines_total > dl.dl_lines_done
  /\ ops' = sigma_read_dram(download_line(dl), download_lines_curr(dl))
  /\ dl' = [line_events(dl, download_lines_curr(dl) - 1)
              EXCEPT !.dl_lines_done = @ + download_lines_curr(dl)]
  /\ last' = Call("download_capture", triggered_rows(dl), "", "lines")
  /\ UNCHANGED << devc, fpga, now, pc, feed, offered, ncap, inp >>

\* a capture without a trigger
LiveArm ==
  /\ ArmOf({NullTrigger}, {FALSE})
  /\ UNCHANGED << fpga, now, pc, dl, ncap, inp >>

LiveNext ==
  \/ LiveArm
  \/ Stop
  \/ AdvanceTime
  \/ Tick
  \/ DownloadPoll
  \/ DownloadSetup
  \/ DownloadLines
  \/ DownloadFinish

\* what a pass of the row loop does to the locals that steer it: every
\* DownloadLines step is such a step, and one is possible exactly when
\* DownloadLines is
LoopPass ==
  /\ pc = "lines"
  /\ dl.dl_lines_total > dl.dl_lines_done
  /\ pc' = pc
  /\ dl' = [line_events(dl, download_lines_curr(dl) - 1)
              EXCEPT !.dl_lines_done = @ + download_lines_curr(dl)]

\* acquisition sessions in which the event loop keeps calling the poll
\* callback, the clock keeps running, and download_capture, once called, runs
\* on: a mode-status read of the force-stop loop fails or brings POSTTRIGGERED
\* in the end
SpecLive ==
  /\ Init
  /\ [][LiveNext]_vars
  /\ WF_vars(Tick)
  /\ WF_vars(AdvanceTime)
  /\ WF_vars(DownloadPoll)
  /\ WF_vars(DownloadSetup)
  /\ WF_<< pc, dl >>(LoopPass)
  /\ WF_vars(DownloadFinish)

RowsNext ==
  \/ LiveArm
  \/ Stop
  \/ Tick
  \/ DownloadPoll
  \/ RowsSetup
  \/ RequestLines
  \/ DownloadFinish

SpecRows == Init /\ [][RowsNext]_vars

(***************************************************************************)
(* The register protocol on its own: one call of a link-level function on  *)
(* a configured, idle device.                                              *)
(***************************************************************************)
\* raw 24-bit counters: the ends of the range and the neighbours of a row
\* boundary
RawCounters == {0, 1, 2, 511, 512, 513, 1024, 16777215}

LinkInput(reg, data, len, raw_stop, raw_trigger) ==
  [reg |-> reg, data |-> data, len |-> len, raw_stop |-> raw_stop,
   raw_trigger |-> raw_trigger]

LinkInit ==
  /\ devc = Configured(SR_MHZ_50, 0).devc
  /\ fpga = Configured(SR_MHZ_50, 0).fpga
  /\ now = 0
  /\ pc = "idle"
  /\ dl = NoDownload
  /\ feed = << >>
  /\ offered = NoOffer
  /\ ops = << >>
  /\ last = Call("config_set", 0, "SR_OK", "")
  /\ ncap = 0
  /\ inp = LinkInput(0, << >>, 0, 0, 0)

\* no link-level function has been called yet
LinkIdle == last.op = "config_set"

\* sigma_read_pos and the mode-status read that follows it in download_capture
ReadPos ==
  /\ LinkIdle
  /\ \E raw_stop \in RawCounters, raw_trigger \in RawCounters, triggered \in BOOLEAN :
       LET pos == sigma_read_pos(raw_stop, raw_trigger)
       IN /\ ops' = pos.ops \o sigma_read_register("READ_MODE")
          /\ dl' = [NoDownload EXCEPT
                      !.stoppos = pos.stoppos,
                      !.triggerpos = pos.triggerpos,
                      !.modestatus = IF triggered THEN {"RMR_TRIGGERED"} ELSE {}]
          /\ inp' = LinkInput(0, << >>, 0, raw_stop, raw_trigger)
  /\ last' = Call("sigma_read_pos", 0, "1", "")
  /\ UNCHANGED << devc, fpga, now, pc, feed, offered, ncap >>

\* the start rows handed to sigma_read_dram
DramStarts == {0, 5, ROW_COUNT - 1}

\* one sigma_read_dram call
ReadDram ==
  /\ LinkIdle
  /\ \E startchunk \in DramStarts, numchunks \in 1..chunks_per_read :
       /\ ops' = sigma_read_dram(startchunk, numchunks)
       /\ inp' = LinkInput(startchunk, << >>, numchunks, 0, 0)
       /\ last' = Call("sigma_read_dram", numchunks, "", "")
  /\ UNCHANGED << devc, fpga, now, pc, dl, feed, offered, ncap >>

\* register numbers (uint8_t): both nibbles zero, one nibble set, both set
LinkRegs == {0, 7, 16, 255}

\* data lengths: none, one, two, the longest write that fits, the first that
\* does not
WriteLens == {0, 1, 2, 39, 40}

\* data bytes to write: a run of distinct bytes from a seed
WriteData(seed, len) == [i \in 1..len |-> (seed + 37 * i) % 256]

WriteSeeds == {0, 165}

\* one sigma_write_register call
WriteRegister ==
  /\ LinkIdle
  /\ \E reg \in LinkRegs, len \in WriteLens, seed \in WriteSeeds,
        outcome \in WriteOutcomes :
       LET w == sigma_write_register(reg, WriteData(seed, len), outcome)
       IN /\ ops' = w.ops
          /\ inp' = LinkInput(reg, WriteData(seed, len), len, 0, 0)
          /\ last' = Call("sigma_write_register", len, w.ret, w.written)
  /\ UNCHANGED << devc, fpga, now, pc, dl, feed, offered, ncap >>

\* lengths of a register read: one byte, as every caller in the file asks,
\* and more than one
ReadLens == {1, 2, 6}

\* one sigma_read_register call
ReadRegister ==
  /\ LinkIdle
  /\ \E reg \in LinkRegs, len \in ReadLens :
       /\ ops' = sigma_read_register_len(reg, len)
       /\ inp' = LinkInput(reg, << >>, len, 0, 0)
       /\ last' = Call("sigma_read_register", len, "", "")
  /\ UNCHANGED << devc, fpga, now, pc, dl, feed, offered, ncap >>

LinkNext ==
  \/ ReadPos
  \/ ReadRegister
  \/ WriteRegister
  \/ ReadDram

SpecLink == LinkInit /\ [][LinkNext]_vars

(***************************************************************************)
(* The helpers of the trigger code on their own: one call of a function on *)
(* arguments drawn from small sets.                                        *)
(***************************************************************************)
\* sample values: channels 1 and 3 low, channel 3 high, both high
OffsetSamples == {0, 8, 10}

\* trigger settings: none, both channels rising, both falling, a level on
\* both, a level on one with a rising edge on the other
OffsetTriggers ==
  { NoTrigger,
    [NoTrigger EXCEPT !.risingmask = 10],
    [NoTrigger EXCEPT !.fallingmask = 10],
    [NoTrigger EXCEPT !.simplemask = 10, !.simplevalue = 8],
    [NoTrigger EXCEPT !.simplemask = 8, !.simplevalue = 8, !.risingmask = 2] }

OffsetInputs ==
  { [fn |-> "get_trigger_offset", samples |-> smp, last_sample |-> ls, t |-> t] :
      smp \in [0..7 -> OffsetSamples], ls \in {0, 10}, t \in OffsetTriggers }

\* values and masks: the example of the manual, all and no channels, one
\* channel per quad, mixed quads
LutWords == {0, 165, 255, 4660, 33825, 65535}

LutInputs ==
  { [fn |-> "build_lut_entry", value |-> v, mask |-> m] : v \in LutWords, m \in LutWords }

Opers == {"OP_LEVEL", "OP_NOT", "OP_RISE", "OP_FALL", "OP_RISEFALL", "OP_NOTRISE",
          "OP_NOTFALL", "OP_NOTRISEFALL"}

Funcs == {"FUNC_AND", "FUNC_NAND", "FUNC_OR", "FUNC_NOR", "FUNC_XOR", "FUNC_NXOR"}

FunctionInputs ==
  { [fn |-> "add_trigger_function", oper |-> o, func |-> f, index |-> x, neg |-> n,
     mask |-> m] :
      o \in Opers, f \in Funcs, x \in {0, 1}, n \in BOOLEAN, m \in {0, 4660, 65535} }

FnInputs == OffsetInputs \cup LutInputs \cup FunctionInputs

FnInit ==
  /\ devc = Configured(SR_MHZ_50, 0).devc
  /\ fpga = Configured(SR_MHZ_50, 0).fpga
  /\ now = 0
  /\ pc = "idle"
  /\ dl = NoDownload
  /\ feed = << >>
  /\ offered = NoOffer
  /\ ops = << >>
  /\ last = Call("config_set", 0, "SR_OK", "")
  /\ ncap = 0
  /\ inp \in FnInputs

\* one get_trigger_offset call
TriggerOffset ==
  /\ last.op = "config_set"
  /\ inp.fn = "get_trigger_offset"
  /\ last' = Call("get_trigger_offset", 0,
                  get_trigger_offset(inp.samples, inp.last_sample, inp.t), "")
  /\ UNCHANGED << devc, fpga, now, pc, dl, feed, offered, ops, ncap, inp >>

\* one build_lut_entry call
BuildLutEntry ==
  /\ last.op = "config_set"
  /\ inp.fn = "build_lut_entry"
  /\ last' = Call("build_lut_entry", 0, build_lut_entry(inp.value, inp.mask), "")
  /\ UNCHANGED << devc, fpga, now, pc, dl, feed, offered, ops, ncap, inp >>

\* one add_trigger_function call
AddTriggerFunction ==
  /\ last.op = "config_set"
  /\ inp.fn = "add_trigger_function"
  /\ last' = Call("add_trigger_function", 0,
                  add_trigger_function(inp.oper, inp.func, inp.index, inp.neg, inp.mask),
                  "")
  /\ UNCHANGED << devc, fpga, now, pc, dl, feed, offered, ops, ncap, inp >>

FnNext ==
  \/ TriggerOffset
  \/ BuildLutEntry
  \/ AddTriggerFunction

SpecFns == FnInit /\ [][FnNext]_vars

(***************************************************************************)
(* sigma_decode_dram_cluster on its own: one cluster of the sample memory  *)
(* decoded by a device with no sample cap.                                 *)
(***************************************************************************)
ClusterRates == {SR_MHZ_50, SR_MHZ_100, SR_MHZ_200}

\* ticks between the end of the cluster before and this one: adjacent, a
\* short pause, a pause of more than one packet
ClusterPauses == {0, 3, 1030}

\* "step" holds channel 3 low in the first two samples of an event at
\* 200 MHz and high in the last two
ClusterWaves == {"alt", "step"}

ClusterInputs ==
  [rate : ClusterRates, since : ClusterPauses, lastsample : {0, 8},
   wave : ClusterWaves, c : {0, 1}, events : {2, EVENTS_PER_CLUSTER},
   triggered : BOOLEAN, use_triggers : BOOLEAN, first : BOOLEAN, junk : {0, 8}]

\* the cluster the call decodes
InputCluster == dram_cluster([gap |-> 0, wave |-> inp.wave, junk |-> 0], 0, inp.c)

ClusterInit ==
  /\ inp \in ClusterInputs
  /\ devc = [Configured(inp.rate, 0).devc EXCEPT
               !.trigger = [NoTrigger EXCEPT !.risingmask = 8],
               !.use_triggers = inp.use_triggers,
               !.lastts = (sigma_dram_cluster_ts(InputCluster) - inp.since) % 65536,
               !.lastsample = inp.lastsample]
  /\ fpga = Configured(inp.rate, 0).fpga
  /\ now = 0
  /\ pc = "lines"
  /\ dl = NoDownload
  /\ feed = << >>
  /\ offered = NoOffer
  /\ ops = << >>
  /\ last = Call("sigma_read_dram", 0, "", "")
  /\ ncap = 0

\* one sigma_decode_dram_cluster call; for the first cluster of a download
\* download_capture has set lastts and lastsample just before.  last keeps
\* the number of padding packets and lastsample and lastts on entry; junk is
\* what the elements of samples[] hold that nothing has written yet
DecodeCluster ==
  /\ last.op = "sigma_read_dram"
  /\ LET d == IF inp.first
                THEN [devc EXCEPT !.lastts = sigma_dram_cluster_ts(InputCluster),
                                  !.lastsample = 0]
                ELSE devc
         rle == rle_packets(d, cluster_tsdiff(d, InputCluster), 0)
         S == sigma_decode_dram_cluster([devc |-> d, feed |-> << >>, offered |-> NoOffer],
                                        InputCluster, inp.events, inp.triggered,
                                        inp.junk)
     IN /\ feed' = rle \o event_packets(d, InputCluster, inp.events, inp.triggered,
                                        inp.junk)
        /\ devc' = S.devc
        /\ offered' = S.offered
        /\ last' = Call("sigma_decode_dram_cluster", Len(rle), d.lastsample, d.lastts)
  /\ UNCHANGED << fpga, now, pc, dl, ops, ncap, inp >>

ClusterNext == DecodeCluster

SpecCluster == ClusterInit /\ [][ClusterNext]_vars

(***************************************************************************)
(* Properties.                                                             *)
(***************************************************************************)
\* logic samples on the datafeed
RECURSIVE LogicSamples(_)
LogicSamples(f) ==
  IF f = << >> THEN 0
  ELSE (IF Head(f).k = "logic" THEN Head(f).n ELSE 0) + LogicSamples(Tail(f))

\* packets of one kind on the datafeed
FeedCount(f, kind) == Cardinality({ i \in 1..Len(f) : f[i].k = kind })

\* the matches of a session trigger, all stages, in order
AllMatches(trigger) == IF trigger.present THEN Flatten(trigger.stages) ELSE << >>

IsEnabled(m) == m.enabled

EnabledMatches(trigger) == SelectSeq(AllMatches(trigger), IsEnabled)

IsEdge(m) == m.match \in {"SR_TRIGGER_RISING", "SR_TRIGGER_FALLING"}

IsLevel(m) == m.match \in {"SR_TRIGGER_ONE", "SR_TRIGGER_ZERO"}

\* download_capture has just returned
DownloadReturned == last.op = "download_capture" /\ last.ret \in {"TRUE", "FALSE"}

(* C1.  A poll tick starts the download exactly when the state is Stopping, *)
(* or the state is Capture and the time since start_time is at least        *)
(* limit_msec milliseconds; any other tick changes no field of the device   *)
(* context and issues nothing on the byte link.                             *)
C1_TickDue ==
  \/ devc.state = "SIGMA_STOPPING"
  \/ /\ devc.state = "SIGMA_CAPTURE"
     /\ now - devc.start_time >= devc.limit_msec * 1000

C1_PollTick ==
  [][ last'.op = "sigma_receive_data" =>
        IF C1_TickDue
          THEN devc'.state = "SIGMA_DOWNLOAD" /\ pc' = "poll" /\ ops' # << >>
          ELSE devc' = devc /\ pc' = pc /\ ops' = << >> ]_vars

\* a tick found the deadline reached exactly, and started the download
C1_TickAtDeadline ==
  /\ last.op = "sigma_receive_data"
  /\ last.note = "deadline"
  /\ devc.limit_msec > 0
  /\ now - devc.start_time = devc.limit_msec * 1000

(* C2.  When a byte-link read of download_capture fails (the POSTTRIGGERED  *)
(* poll or the mode-status read after it), the download reports failure and *)
(* the acquisition state is Idle when it returns.                           *)
C2_ReadFailureLeavesIdle ==
  (last.op = "download_capture" /\ last.note \in {"poll", "modestatus"}
   /\ last.ret # "")
    => last.ret = "FALSE" /\ devc.state = "SIGMA_IDLE"

(* C3.  Every capture that entered Download is closed by exactly one        *)
(* end-of-stream marker, after all its logic packets and trigger markers,   *)
(* and the state is Idle once it has been sent.                             *)
C3_OneEndOfStream ==
  DownloadReturned =>
    /\ FeedCount(feed, "end") = 1
    /\ feed[Len(feed)].k = "end"
    /\ devc.state = "SIGMA_IDLE"

(* C4.  upload_firmware(slot) with cur_firmware = slot returns success,     *)
(* performs no operation on the byte link and changes no field of the       *)
(* device context (its caller sigma_set_samplerate then stores the rate,    *)
(* the channel layout, the state and limit_msec).                           *)
C4_FieldsOfCaller ==
  {"cur_samplerate", "num_channels", "samples_per_event", "state", "limit_msec"}

C4_LoadedSlotUntouched ==
  [][ (/\ last'.op = "sigma_set_samplerate"
       /\ last'.arg \in SupportedRates
       /\ devc.cur_firmware = samplerate_firmware(last'.arg))
      => /\ last'.ret = "SR_OK"
         /\ ops' = << >>
         /\ fpga' = fpga
         /\ \A f \in (DOMAIN devc) \ C4_FieldsOfCaller : devc'[f] = devc[f] ]_vars

\* a rate whose slot is already loaded was set
C4_LoadedSlotHit ==
  /\ last.op = "sigma_set_samplerate"
  /\ last.ret = "SR_OK"
  /\ ops = << >>
  /\ devc.cur_firmware = samplerate_firmware(last.arg)
  /\ devc.cur_samplerate = last.arg

(* C5.  cur_firmware changes only at the end of an upload that returns      *)
(* success, and then to the requested slot; an upload that fails at any     *)
(* step leaves it as it was.                                                *)
C5_FirmwareRecordedOnSuccess ==
  [][ /\ (devc'.cur_firmware # devc.cur_firmware =>
            /\ last'.op = "sigma_set_samplerate"
            /\ last'.ret = "SR_OK"
            /\ devc'.cur_firmware = samplerate_firmware(last'.arg)
            /\ ops' # << >>
            /\ ops'[Len(ops')] = LinkOp("read", 3, "logic_mode_start", << >>))
      /\ (last'.op = "sigma_set_samplerate" /\ last'.ret # "SR_OK" =>
            devc'.cur_firmware = devc.cur_firmware) ]_vars

\* the netlist of another slot was sent, the handshake failed, and
\* cur_firmware still names the slot recorded before
C5_FailedAfterNetlist ==
  /\ last.op = "sigma_set_samplerate"
  /\ last.ret = "SR_ERR"
  /\ fpga = ToString(samplerate_firmware(last.arg))
  /\ devc.cur_firmware # samplerate_firmware(last.arg)
  /\ devc.cur_firmware # 0 - 1
  /\ ops[Len(ops)] = LinkOp("read", 3, "logic_mode_start", << >>)

(* C6.  As claimed: after sigma_set_samplerate(r), cur_samplerate = r if    *)
(* and only if r is in the supported table; for r outside the table the     *)
(* call returns the unsupported-samplerate error and leaves cur_samplerate, *)
(* num_channels, samples_per_event, the state, limit_msec and cur_firmware  *)
(* unchanged.                                                               *)
C6_Fields ==
  {"cur_samplerate", "num_channels", "samples_per_event", "state", "limit_msec",
   "cur_firmware"}

C6_AsClaimed ==
  [][ last'.op = "sigma_set_samplerate" =>
        /\ (devc'.cur_samplerate = last'.arg <=> last'.arg \in SupportedRates)
        /\ (last'.arg \notin SupportedRates =>
              /\ last'.ret = "SR_ERR_SAMPLERATE"
              /\ \A f \in C6_Fields : devc'[f] = devc[f]) ]_vars

(* C6, amended.  After sigma_set_samplerate(r) returns success,             *)
(* cur_samplerate = r, and it returns success only for a rate of the table; *)
(* for r outside the table it returns the unsupported-samplerate error; and *)
(* whenever it fails (unsupported rate, or a supported rate whose firmware  *)
(* upload failed) the six fields are unchanged.                             *)
C6_SamplerateStored ==
  [][ last'.op = "sigma_set_samplerate" =>
        /\ (last'.ret = "SR_OK" =>
              last'.arg \in SupportedRates /\ devc'.cur_samplerate = last'.arg)
        /\ (last'.arg \notin SupportedRates => last'.ret = "SR_ERR_SAMPLERATE")
        /\ (last'.ret # "SR_OK" => \A f \in C6_Fields : devc'[f] = devc[f]) ]_vars

\* a supported rate was asked for, the upload failed, the old rate stays
C6_SupportedRateNotStored ==
  /\ last.op = "sigma_set_samplerate"
  /\ last.arg \in SupportedRates
  /\ last.ret \notin {"SR_OK", "SR_ERR_SAMPLERATE"}
  /\ devc.cur_samplerate # last.arg

\* sigma_limit_samples_to_msec has just been applied to inp.limit
MsecReturned == last.op = "sigma_limit_samples_to_msec"

(* C7.  As claimed: for every supported rate and every sample limit the     *)
(* result is limit_samples*1000/cur_samplerate + 2*65536*1000/cur_samplerate*)
(* in integer milliseconds: 655 for (1 sample, 200 kHz), 132 for            *)
(* (1000 samples, 1 MHz).                                                   *)
C7_AsClaimed ==
  MsecReturned =>
    /\ devc.limit_msec = (inp.limit * 1000) \div inp.rate
                         + (2 * 65536 * 1000) \div inp.rate
    /\ (inp.limit = 1 /\ inp.rate = SR_KHZ_200 => devc.limit_msec = 655)
    /\ (inp.limit = 1000 /\ inp.rate = SR_MHZ_1 => devc.limit_msec = 132)

(* C7, amended.  The result is a + 2*b, where a is limit_samples*1000 /     *)
(* cur_samplerate and b is 65536*1000 / cur_samplerate, each division       *)
(* rounded down on its own: 654 for (1 sample, 200 kHz), 131 for            *)
(* (1000 samples, 1 MHz).                                                   *)
C7_TwoWorstClusterTimes ==
  MsecReturned =>
    /\ \E b \in 0..328 :
         /\ 65536 * 1000 - b * inp.rate \in 0..(inp.rate - 1)
         /\ LET a == devc.limit_msec - 2 * b
            IN a >= 0 /\ inp.limit * 1000 - a * inp.rate \in 0..(inp.rate - 1)
    /\ (inp.limit = 1 /\ inp.rate = SR_KHZ_200 => devc.limit_msec = 654)
    /\ (inp.limit = 1000 /\ inp.rate = SR_MHZ_1 => devc.limit_msec = 131)

\* one sample at 200 kHz: twice 327 ms
C7_OneSampleAt200kHz ==
  /\ MsecReturned
  /\ inp.limit = 1
  /\ inp.rate = SR_KHZ_200
  /\ devc.limit_msec = 654

TriggerConverted == last.op = "sigma_convert_trigger"

C9_EdgeBits == PopCount(Or16(devc.trigger.risingmask, devc.trigger.fallingmask), 0)

(* C9.  As claimed: after sigma_convert_trigger at 100 MHz or 200 MHz,      *)
(* succeeded or failed, at most one bit is set across risingmask |          *)
(* fallingmask and simplemask = 0; a second match or any ONE/ZERO match     *)
(* makes the call fail.                                                     *)
C9_AsClaimed ==
  (TriggerConverted /\ inp.rate >= SR_MHZ_100) =>
    /\ C9_EdgeBits <= 1
    /\ devc.trigger.simplemask = 0
    /\ LET m == AllMatches(inp.trigger)
       IN (Len(m) >= 2 \/ \E i \in 1..Len(m) : IsLevel(m[i])) => last.ret # "SR_OK"

(* C9, amended.  ... a second match on an enabled channel, or any ONE/ZERO  *)
(* match on an enabled channel, makes the call fail; matches on disabled    *)
(* channels are skipped.                                                    *)
C9_FastTrigger ==
  (TriggerConverted /\ inp.rate >= SR_MHZ_100) =>
    /\ C9_EdgeBits <= 1
    /\ devc.trigger.simplemask = 0
    /\ LET m == EnabledMatches(inp.trigger)
       IN (Len(m) >= 2 \/ \E i \in 1..Len(m) : IsLevel(m[i])) => last.ret # "SR_OK"

\* a trigger with a match on a disabled channel and an edge on an enabled one
\* was accepted at 200 MHz
C9_DisabledMatchSkipped ==
  /\ TriggerConverted
  /\ inp.rate = SR_MHZ_200
  /\ last.ret = "SR_OK"
  /\ Len(AllMatches(inp.trigger)) >= 2
  /\ Len(EnabledMatches(inp.trigger)) = 1
  /\ C9_EdgeBits = 1

C10_Edges == Len(SelectSeq(EnabledMatches(inp.trigger), IsEdge))

PosInRange(p) == p >= 0 /\ p < ROW_COUNT * 512

(* C11.  After sigma_read_pos, for every pair of raw 24-bit counters,       *)
(* stoppos < ROW_COUNT * 512, and triggerpos < ROW_COUNT * 512 when the     *)
(* TRIGGERED flag is set.  A raw counter of 0 decrements to 0xffffffff and  *)
(* ends at 0xffffffbf.                                                      *)
C11_PositionsInRange ==
  last.op = "sigma_read_pos" =>
    /\ PosInRange(dl.stoppos)
    /\ ("RMR_TRIGGERED" \in dl.modestatus => PosInRange(dl.triggerpos))

(* C12.  A download asks for the rows (dl_first_line + k) mod ROW_COUNT,    *)
(* k = 0 .. dl_lines_total - 1, in order and each once, at most 32 per      *)
(* pass: dl_first_line = 0 and dl_lines_total = (stoppos >> 9) + 1 without  *)
(* ROUND; with ROUND the first row is stop row + 2 mod ROW_COUNT and        *)
(* dl_lines_total = ROW_COUNT - 2.  Every pass starts at row number         *)
(* dl_lines_done of that sequence and moves dl_lines_done past the rows it  *)
(* asked for; the download ends when dl_lines_done = dl_lines_total.        *)
C12_RowsInOrder ==
  [][ /\ last'.op = "download_capture" /\ last'.note = "setup" =>
           /\ dl'.dl_lines_done = 0
           /\ IF "RMR_ROUND" \in dl'.modestatus
                THEN /\ dl'.dl_first_line % ROW_COUNT
                          = (Shr(dl'.stoppos, 9) + 2) % ROW_COUNT
                     /\ dl'.dl_lines_total = ROW_COUNT - 2
                ELSE /\ dl'.dl_first_line = 0
                     /\ dl'.dl_lines_total = Shr(dl'.stoppos, 9) + 1
      /\ last'.op = "download_capture" /\ last'.note = "lines" =>
           /\ ops'[1].tag = "WRITE_MEMROW"
           /\ ops'[1].data = << (dl.dl_first_line + dl.dl_lines_done) % ROW_COUNT >>
           /\ ops'[3].op = "read"
           /\ ops'[3].n \div 1024 \in 1..32
           /\ dl'.dl_lines_done = dl.dl_lines_done + ops'[3].n \div 1024
           /\ dl'.dl_lines_done <= dl.dl_lines_total
           /\ dl'.dl_lines_done < dl.dl_lines_total => ops'[3].n \div 1024 = 32
           /\ dl'.dl_first_line = dl.dl_first_line
           /\ dl'.dl_lines_total = dl.dl_lines_total
      /\ last'.op = "download_capture" /\ last'.ret = "TRUE" =>
           dl.dl_lines_done = dl.dl_lines_total ]_vars

\* a wrapped download is past the end of sample memory: its row address has
\* gone back to 0 and its last, short pass is made
C12_WrappedDownloadDone ==
  /\ pc = "lines"
  /\ "RMR_ROUND" \in dl.modestatus
  /\ dl.dl_first_line + dl.dl_lines_done > ROW_COUNT
  /\ dl.dl_lines_done = dl.dl_lines_total
  /\ dl.dl_lines_total = ROW_COUNT - 2

\* the changes of state the acquisition state machine allows
StateOrder ==
  { << "SIGMA_IDLE", "SIGMA_CAPTURE" >>, << "SIGMA_CAPTURE", "SIGMA_STOPPING" >>,
    << "SIGMA_STOPPING", "SIGMA_DOWNLOAD" >>, << "SIGMA_CAPTURE", "SIGMA_DOWNLOAD" >>,
    << "SIGMA_DOWNLOAD", "SIGMA_IDLE" >> }

(* C13.  The acquisition state changes only along Idle -> Capture ->        *)
(* Stopping -> Download -> Idle, or Capture -> Download on timeout; no      *)
(* operation, sigma_set_samplerate on an armed device included, takes it    *)
(* from Capture or Stopping to Idle.                                        *)
C13_StateOrder ==
  [][ devc'.state # devc.state => << devc.state, devc'.state >> \in StateOrder ]_vars

\* a link operation that belongs to the read-out: the SDRAMREADEN write, the
\* position read, a row request
IsReadout(o) ==
  \/ o.tag \in {"READ_TRIGGER_POS_LOW", "WRITE_MEMROW", "dram_block"}
  \/ o.tag = "WRITE_MODE" /\ o.data = << "WMR_SDRAMREADEN" >>

(* C14.  download_capture first writes FORCESTOP|SDRAMWRITEEN to the mode   *)
(* register; it writes SDRAMREADEN, reads the positions and asks for rows   *)
(* only after a mode-status read returned POSTTRIGGERED set; the positions  *)
(* are read before the mode-status read that supplies TRIGGERED and ROUND.  *)
C14_ForceStopOrder ==
  [][ /\ pc = "idle" /\ pc' # "idle" =>
           /\ pc' = "poll"
           /\ ops' = << LinkOp("write", 4, "WRITE_MODE",
                               << "WMR_FORCESTOP|WMR_SDRAMWRITEEN" >>) >>
      /\ pc' = "setup" =>
           /\ pc = "poll"
           /\ last'.note = "posttriggered"
           /\ ops' = << LinkOp("write", 3, "READ_MODE", << >>),
                        LinkOp("read", 1, "READ_MODE", << >>) >>
      /\ pc' = "lines" => pc \in {"setup", "lines"}
      /\ (\E i \in 1..Len(ops') : IsReadout(ops'[i])) => pc \in {"setup", "lines"}
      /\ pc = "setup" =>
           /\ Len(ops') = 5
           /\ ops'[1] = LinkOp("write", 4, "WRITE_MODE", << "WMR_SDRAMREADEN" >>)
           /\ ops'[2].op = "write" /\ ops'[2].tag = "READ_TRIGGER_POS_LOW"
           /\ ops'[3].op = "read" /\ ops'[3].tag = "READ_TRIGGER_POS_LOW"
           /\ ops'[4].op = "write" /\ ops'[4].tag = "READ_MODE"
           /\ ops'[5].op = "read" /\ ops'[5].tag = "READ_MODE" ]_vars

\* rows were asked for in a download whose first mode-status read had
\* POSTTRIGGERED clear
C14_RowsAfterPoll ==
  /\ pc = "lines"
  /\ dl.polls > 0
  /\ dl.dl_lines_done > 0

\* download_capture has just returned FALSE because a register read failed
ReadFailed ==
  last.op = "download_capture" /\ last.ret = "FALSE"
  /\ last.note \in {"poll", "modestatus"}

\* a capture that is being stopped, or one whose deadline lies within the
\* time the clock covers
C15_Ending ==
  \/ devc.state = "SIGMA_STOPPING"
  \/ devc.state = "SIGMA_CAPTURE"
       /\ devc.start_time + devc.limit_msec * 1000 <= MaxNow

(* C15.  From Stopping, or from Capture (limit_msec is finite), with poll   *)
(* ticks that keep coming, link reads that succeed and a device that        *)
(* reports POSTTRIGGERED in the end, the state becomes Idle; and as long    *)
(* as the mode-status reads succeed with POSTTRIGGERED clear the force-stop *)
(* poll goes on and the state stays Download.                               *)
C15_EventuallyIdle ==
  /\ C15_Ending ~> (devc.state = "SIGMA_IDLE" \/ ReadFailed)
  /\ [][ pc = "poll" /\ last'.op = "download_capture" /\ last'.ret = ""
           /\ last'.note = "poll"
         => pc' = "poll" /\ devc'.state = "SIGMA_DOWNLOAD" ]_vars

IsInitRead(o) == o.op = "read" /\ o.tag = "init_b"

\* the one-byte reads of the INIT_B handshake in the last call
InitReads == SelectSeq(ops, IsInitRead)

\* the last call was a sigma_set_samplerate whose upload reached the INIT_B
\* handshake
HandshakeRan == last.op = "sigma_set_samplerate" /\ InitReads # << >>

\* what sigma_fpga_init_bitbang returned: its errors are passed on unchanged,
\* and no other step of the upload returns them
HandshakeRet ==
  IF last.ret \in {"FTDI_ERR", "SR_ERR_TIMEOUT"} THEN last.ret ELSE "SR_OK"

(* C17.  The INIT_B handshake makes at most 10 one-byte reads; it returns   *)
(* SR_OK at the first read whose byte has bit 5 set, the link error at the  *)
(* first read that fails, and SR_ERR_TIMEOUT after exactly 10 reads none of *)
(* which had bit 5 set.                                                     *)
C17_InitHandshake ==
  HandshakeRan =>
    LET n == Len(InitReads)
    IN /\ n <= INIT_RETRIES
       /\ \A i \in 1..(n - 1) : InitReads[i].data \notin {<< "high" >>, << "fail" >>}
       /\ HandshakeRet = "SR_OK" => InitReads[n].data = << "high" >>
       /\ HandshakeRet = "FTDI_ERR" => InitReads[n].data = << "fail" >>
       /\ HandshakeRet = "SR_ERR_TIMEOUT" =>
            n = INIT_RETRIES /\ InitReads[n].data # << "high" >>

\* o is a write of the given bytes
IsWriteOf(o, bytes) == o.op = "write" /\ o.n = Len(bytes) /\ o.data = bytes

\* the link operations o of one upload, in the order of the claim; k is the
\* number of INIT_B reads, and an upload that fails stops early
UploadOrder(o, k) ==
  /\ o[1] = LinkOp("set_bitmode", 255 - 32, "BITMODE_BITBANG", << >>)
  /\ Len(o) >= 2 => o[2] = LinkOp("set_baudrate", 750000, "", << >>)
  /\ Len(o) >= 3 =>
       /\ k >= 1 /\ Len(o) >= 8 + k
       /\ \A i \in 3..6 : IsWriteOf(o[i], << 132, 132, 136, 132, 136, 132, 136, 132 >>)
       /\ IsWriteOf(o[7], << 1, 3, 3, 1, 1, 1, 1, 1, 1, 1 >>)
       /\ o[8].op = "purge"
       /\ \A i \in 9..(8 + k) : IsInitRead(o[i])
  /\ Len(o) >= 9 + k =>
       /\ Len(o) >= 10 + k
       /\ o[9 + k].op = "write" /\ o[9 + k].tag = "bitstream"
       /\ o[10 + k] = LinkOp("set_bitmode", 0, "BITMODE_RESET", << >>)
  /\ Len(o) >= 11 + k =>
       /\ Len(o) >= 14 + k
       /\ o[11 + k].op = "purge"
       /\ \A i \in (12 + k)..(Len(o) - 2) : o[i].op = "read" /\ o[i].tag = "drain"
       /\ o[Len(o) - 1].op = "write" /\ o[Len(o) - 1].tag = "logic_mode_start"
       /\ o[Len(o)].op = "read" /\ o[Len(o)].tag = "logic_mode_start"

(* C16.  An upload_firmware call that is not a cache hit issues, in this    *)
(* order: set-bitmode(bitbang, all pins but INIT_B), set-baudrate(750000),  *)
(* the 8-byte suicide pattern four times, the 10-byte PROG array, a purge,  *)
(* the INIT_B reads, the bitstream, set-bitmode(reset), a purge, the drain  *)
(* reads, the LA-mode handshake; the bitstream is written only after a read *)
(* showed INIT_B high, and cur_firmware is recorded only after the LA-mode  *)
(* handshake succeeded.                                                     *)
C16_UploadOrder ==
  [][ last'.op = "sigma_set_samplerate" /\ ops' # << >> =>
        LET o == ops'
            reads == SelectSeq(o, IsInitRead)
        IN /\ UploadOrder(o, Len(reads))
           /\ (\E i \in 1..Len(o) : o[i].tag = "bitstream") =>
                (\E i \in 1..Len(reads) : reads[i].data = << "high" >>)
           /\ devc'.cur_firmware # devc.cur_firmware =>
                /\ o[Len(o)].tag = "logic_mode_start"
                /\ last'.ret = "SR_OK" ]_vars

\* the buffer a command byte fetches a row into, or NONE; the opening
\* REG_DRAM_BLOCK, which names no buffer, fills buffer 0
FetchInto(b) ==
  IF b.opcode # "REG_DRAM_BLOCK" THEN NONE
  ELSE IF b.sel = NONE THEN 0 ELSE b.sel

(* C18.  For 1 to 32 rows the command stream of sigma_read_dram after the   *)
(* MEMROW write is DRAM_BLOCK, DRAM_WAIT_ACK, then for row k:               *)
(* DRAM_BLOCK|SEL(1 - k mod 2) unless k is last, DRAM_BLOCK_DATA|SEL(k mod  *)
(* 2), DRAM_WAIT_ACK unless k is last; it has 3n bytes, and every transfer  *)
(* of buffer s follows a fetch into s and a later DRAM_WAIT_ACK with no     *)
(* fetch into s in between.                                                 *)
C18_PingPong ==
  last.op = "sigma_read_dram" =>
    LET n == inp.len
        c == ops[2].data
    IN /\ ops[1].op = "write" /\ ops[1].tag = "WRITE_MEMROW"
       /\ ops[2].op = "write" /\ ops[2].n = 3 * n /\ Len(c) = 3 * n
       /\ c[1] = DramByte("REG_DRAM_BLOCK", NONE)
       /\ c[2] = DramByte("REG_DRAM_WAIT_ACK", NONE)
       /\ \A k \in 0..(n - 2) :
            /\ c[3 + 3 * k] = DramByte("REG_DRAM_BLOCK", 1 - (k % 2))
            /\ c[4 + 3 * k] = DramByte("REG_DRAM_BLOCK_DATA", k % 2)
            /\ c[5 + 3 * k] = DramByte("REG_DRAM_WAIT_ACK", NONE)
       /\ c[3 * n] = DramByte("REG_DRAM_BLOCK_DATA", (n - 1) % 2)
       /\ \A j \in 1..Len(c) :
            c[j].opcode = "REG_DRAM_BLOCK_DATA" =>
              \E i \in 1..(j - 1) :
                /\ FetchInto(c[i]) = c[j].sel
                /\ \E w \in (i + 1)..(j - 1) : c[w].opcode = "REG_DRAM_WAIT_ACK"
                /\ \A m \in (i + 1)..(j - 1) : FetchInto(c[m]) # c[j].sel

\* a read of 32 rows: both buffers are in use and the last row has no
\* prefetch after it
C18_FullChunkRead ==
  /\ last.op = "sigma_read_dram"
  /\ inp.len = chunks_per_read
  /\ Len(ops[2].data) = 3 * chunks_per_read

(* C19.  sigma_write_register(reg, data, N) hands the link exactly 2 + 2N   *)
(* command bytes: ADDR_LOW | low nibble of reg, ADDR_HIGH | high nibble of  *)
(* reg, then for each data byte in order DATA_LOW | low nibble and          *)
(* DATA_HIGH_WRITE | high nibble; when 2N + 2 is more than the 80 bytes of  *)
(* the buffer it returns SR_ERR_BUG and nothing is written.                 *)
C19_WriteRegister ==
  last.op = "sigma_write_register" =>
    LET N == inp.len
        d == inp.data
    IN IF 2 * N + 2 > WRITE_BUF_SIZE
       THEN last.ret = "SR_ERR_BUG" /\ ops = << >>
       ELSE /\ Len(ops) = 1 /\ ops[1].op = "write" /\ ops[1].n = 2 + 2 * N
            /\ last.ret = "sigma_write"
            /\ LET b == ops[1].data
               IN /\ Len(b) = 2 + 2 * N
                  /\ b[1] = CmdByte("REG_ADDR_LOW", inp.reg % 16)
                  /\ b[2] = CmdByte("REG_ADDR_HIGH", inp.reg \div 16)
                  /\ \A i \in 1..N :
                       /\ b[2 * i + 1] = CmdByte("REG_DATA_LOW", d[i] % 16)
                       /\ b[2 * i + 2] = CmdByte("REG_DATA_HIGH_WRITE", d[i] \div 16)

\* the longest write that fits: 39 data bytes, 80 command bytes, register 0xff
C19_LongestWrite ==
  /\ last.op = "sigma_write_register"
  /\ 2 * inp.len + 2 = WRITE_BUF_SIZE
  /\ inp.reg \div 16 > 0
  /\ Len(ops) = 1 /\ Len(ops[1].data) = WRITE_BUF_SIZE

RowsPassed == pc = "lines" /\ last.op = "download_capture" /\ last.note = "lines"

(* C21.  When TRIGGERED is reported, the row that is decoded with the       *)
(* trigger event offset triggerpos & 0x1ff is the DRAM row triggerpos >> 9, *)
(* with ROUND clear and with ROUND set; without TRIGGERED no row is decoded *)
(* with a trigger.                                                          *)
C21_TriggerRow ==
  RowsPassed =>
    \A r \in last.arg :
      /\ "RMR_TRIGGERED" \in dl.modestatus
      /\ r.row = Shr(dl.triggerpos, 9)
      /\ r.event = dl.triggerpos % 512

\* sample i of the eight is a match: the levels agree, every rising channel
\* is 0 in the sample before and 1 in this one, every falling channel 1
\* before and 0 in this one; the sample before sample 0 is last_sample
OffsetMatch(i) ==
  LET s == inp.samples[i]
      prev == IF i = 0 THEN inp.last_sample ELSE inp.samples[i - 1]
      t == inp.t
  IN /\ And16(s, t.simplemask) = t.simplevalue
     /\ And16(prev, t.risingmask) = 0 /\ And16(s, t.risingmask) = t.risingmask
     /\ And16(prev, t.fallingmask) = t.fallingmask /\ And16(s, t.fallingmask) = 0

\* get_trigger_offset returns the first matching index, and no_match when
\* there is none
OffsetIs(no_match) ==
  last.op = "get_trigger_offset" =>
    IF \E i \in 0..7 : OffsetMatch(i)
      THEN OffsetMatch(last.ret) /\ \A i \in 0..(last.ret - 1) : ~OffsetMatch(i)
      ELSE last.ret = no_match

(* C22 as stated.  get_trigger_offset returns the first index in 0..7 at    *)
(* which the sample matches, and 7 when none of the eight matches.          *)
C22_AsClaimed == OffsetIs(7)

(* C22, amended.  get_trigger_offset returns the first index in 0..7 at     *)
(* which the sample matches, and 0 when none of the eight matches.          *)
C22_TriggerOffset == OffsetIs(0)

\* a call in which none of the eight samples matches
C22_NoMatch ==
  /\ last.op = "get_trigger_offset"
  /\ \A i \in 0..7 : ~OffsetMatch(i)
  /\ last.ret = 0

\* the four bits of x that belong to quad i
Quad(x, i) == (x \div Pow2(4 * i)) % 16

(* C25.  For every quad i in 0..3 build_lut_entry sets bit j (0 <= j < 16)  *)
(* of entry[i] if and only if j agrees with the value on every masked       *)
(* channel of the quad; value 0x00A5 with mask 0x00FF gives entry[0] = only *)
(* bit 5, entry[1] = only bit 10, entry[2] = entry[3] = 0xffff.             *)
C25_LutEntry ==
  last.op = "build_lut_entry" =>
    /\ \A i \in 0..3, j \in 0..15 :
         BitAt(last.ret[i], j) = 1
           <=> And16(j, Quad(inp.mask, i)) = And16(Quad(inp.value, i), Quad(inp.mask, i))
    /\ (inp.value = 165 /\ inp.mask = 255) =>
         last.ret = [i \in 0..3 |-> IF i = 0 THEN Pow2(5)
                                     ELSE IF i = 1 THEN Pow2(10) ELSE 65535]

\* the example: value 0x00A5, mask 0x00FF
C25_Example ==
  /\ last.op = "build_lut_entry"
  /\ inp.value = 165 /\ inp.mask = 255
  /\ last.ret[0] = Pow2(5)

FirstStageOf(trigger) ==
  IF trigger.present /\ trigger.stages # << >>
    THEN [trigger EXCEPT !.stages = << Head(trigger.stages) >>]
    ELSE trigger

(* C26.  sigma_convert_trigger takes the trigger from the first stage of    *)
(* the trigger model only: with the second and later stages removed the     *)
(* masks, the value and the result are the same.                            *)
C26_FirstStageOnly ==
  TriggerConverted =>
    LET c == sigma_convert_trigger(devc.cur_samplerate, FirstStageOf(inp.trigger))
    IN devc.trigger = c.trigger /\ last.ret = c.ret

(* C28.  Whenever cur_firmware names a slot, the configuration most         *)
(* recently started on the FPGA is that of this slot, after any sequence of *)
(* upload_firmware calls, failed ones included.                             *)
C28_CacheMatchesDevice ==
  devc.cur_firmware >= 0 => fpga = ToString(devc.cur_firmware)

(* C29.  For every stop position sigma_read_pos returns, the event count of *)
(* the last downloaded line, stoppos & 0x1ff, is at most 448, so            *)
(* decode_chunk_ts walks at most 64 clusters of the row.                    *)
C29_LastLineEvents ==
  last.op = "sigma_read_pos" =>
    /\ dl.stoppos % 512 <= EVENTS_PER_ROW
    /\ chunk_clusters_in_line(dl.stoppos % 512) <= CLUSTERS_PER_ROW

ClusterDecoded == last.op = "sigma_decode_dram_cluster"

\* the samples the cluster's events decode to
ClusterDec == cluster_samples(inp.rate, InputCluster, 0, inp.events)

\* the packets after the padding
ClusterTail == SubSeq(feed, last.arg + 1, Len(feed))

RECURSIVE PacketSamples(_)
\* samples in a sequence of packets
PacketSamples(f) ==
  IF f = << >> THEN 0 ELSE Len(Head(f).data) + PacketSamples(Tail(f))

\* channel 3 rises at decoded sample k: low in the sample before (lastsample
\* for k = 0), high in this one
RisesAt(k) ==
  /\ And16(ClusterDec[k + 1], 8) = 8
  /\ And16(IF k = 0 THEN last.ret ELSE ClusterDec[k], 8) = 0

\* the decoded samples get_trigger_offset examines
Examined == 0..(MIN(8, Len(ClusterDec)) - 1)

(* C23.  When the trigger cluster is decoded and the first matching sample  *)
(* is at index i of the cluster's decoded samples, the datafeed receives    *)
(* the cluster's samples 0..i-1, then the trigger marker (if triggers are   *)
(* enabled), then sample i onwards, at every samplerate.                    *)
C23_MarkerAtMatch ==
  (ClusterDecoded /\ inp.triggered) =>
    \A i \in Examined :
      (RisesAt(i) /\ \A k \in 0..(i - 1) : ~RisesAt(k)) =>
        ClusterTail =
          (IF i > 0 THEN << LogicPacket(SubSeq(ClusterDec, 1, i)) >> ELSE << >>)
          \o (IF inp.use_triggers THEN << [k |-> "trigger", data |-> << >>] >> ELSE << >>)
          \o << LogicPacket(SubSeq(ClusterDec, i + 1, Len(ClusterDec))) >>

(* C24.  With tsdiff = (cluster_ts - lastts) mod 2^16, exactly tsdiff *     *)
(* samples_per_event samples all equal to lastsample go out before the      *)
(* cluster's own events, in packets of at most 1024 samples, and afterwards *)
(* lastts = (cluster_ts + 7) mod 2^16; for the first cluster of a download  *)
(* tsdiff is 0 and lastsample is 0.                                         *)
C24_Padding ==
  ClusterDecoded =>
    LET ts == sigma_dram_cluster_ts(InputCluster)
        tsdiff == (ts - last.note) % 65536
    IN /\ last.arg <= Len(feed)
       /\ \A p \in 1..last.arg :
            /\ feed[p].k = "logic"
            /\ Len(feed[p].data) \in 1..1024
            /\ \A x \in 1..Len(feed[p].data) : feed[p].data[x] = last.ret
       /\ PacketSamples(SubSeq(feed, 1, last.arg)) = tsdiff * devc.samples_per_event
       /\ (~offered.wrapped => PacketSamples(ClusterTail) = Len(ClusterDec))
       /\ devc.lastts = (ts + EVENTS_PER_CLUSTER) % 65536
       /\ inp.first => (tsdiff = 0 /\ last.ret = 0)

\* a pause of more than one packet at 200 MHz: 1024 and 6 copies, four
\* times each
C24_LongPause ==
  /\ ClusterDecoded
  /\ ~inp.first /\ inp.since > 1024 /\ inp.rate = SR_MHZ_200
  /\ last.arg = 8

(* C30.  In every triggered cluster the slice before the trigger is no      *)
(* longer than the cluster's decoded data, a short last cluster included,   *)
(* so the count of samples after the trigger never wraps below zero.        *)
C30_SliceFits ==
  (ClusterDecoded /\ inp.triggered) =>
    /\ ~offered.wrapped
    /\ \A p \in 1..Len(feed) : feed[p].k # "overread"
    /\ PacketSamples(ClusterTail) = Len(ClusterDec)

\* the pass that decoded the last row of the download has run
LastRowPassed == RowsPassed /\ dl.dl_lines_done = dl.dl_lines_total

\* the DRAM address of the last row the last sigma_read_dram asked for: the
\* start row written to MEMROW plus the rows read after it
LastRowRead == (ops[1].data[1] + (ops[3].n \div 1024) - 1) % ROW_COUNT

(* C31.  In every download the last row decoded, the one decoded with the   *)
(* partial event count stoppos & 0x1ff, is the DRAM row stoppos >> 9 in     *)
(* which the capture stopped, with ROUND clear and with ROUND set.          *)
C31_LastRowIsStopRow ==
  LastRowPassed =>
    /\ dl.dl_events_in_line = dl.stoppos % 512
    /\ LastRowRead = Shr(dl.stoppos, 9)

=============================================================================
